---- MODULE Spec2Model ----
(***************************************************************************)
(* A model of the LinkPlay player provider of vidnova-music-control:       *)
(* subnet expansion, the batched network scan, the discovery loop and its  *)
(* registry of players, and the per-player poll / command state.           *)
(*                                                                         *)
(* An IPv4 address is its 32-bit word, read as a signed integer (TLC's      *)
(* integers are 32 bits wide and signed): 192.168.1.0 is -1062731520.      *)
(* Within a subnet the hosts are consecutive integers either way.          *)
(* A subnet string is the record [kind, ip, prefix]; kind "invalid" stands *)
(* for every string ipaddress.ip_network rejects, kind "none" for an empty *)
(* or missing configuration value.                                         *)
(***************************************************************************)
EXTENDS Integers, Sequences, FiniteSets, TLC

None == [kind |-> "None"]

\* ------------------------------------------------------------------------
\* Program constants
\* ------------------------------------------------------------------------
batch_size == 50
MaxScanAddresses == 1024
GraceSeconds == 15

\* ------------------------------------------------------------------------
\* Bounds of the model
\* ------------------------------------------------------------------------
\* A probe of a batch may resolve when it is among the first ResolveWindow
\* unresolved probes of the batch (in candidate order).
ResolveWindow == 2

\* ------------------------------------------------------------------------
\* Addresses and subnets
\* ------------------------------------------------------------------------
Min(a, b) == IF a < b THEN a ELSE b

\* The address a.b.c.d
Ip(a, b, c, d) == (((IF a >= 128 THEN a - 256 ELSE a) * 256 + b) * 256 + c) * 256 + d

\* The string "<ip>/<prefix>"
Cidr(ip, prefix) == [kind |-> "cidr", ip |-> ip, prefix |-> prefix]

InvalidSubnet == [kind |-> "invalid", ip |-> 0, prefix |-> 0]

NoSubnet == [kind |-> "none", ip |-> 0, prefix |-> 0]

\* "192.168.0.0/16"
DEFAULT_SUBNET == Cidr(Ip(192, 168, 0, 0), 16)

\* ipaddress.ip_network(subnet, strict=False): the host bits are masked off.
IpNetwork(subnet) ==
    LET size == 2 ^ (32 - subnet.prefix)
    IN  [ip |-> subnet.ip - (subnet.ip % size), prefix |-> subnet.prefix]

\* network.num_addresses
NumAddresses(network) == 2 ^ (32 - network.prefix)

\* network.hosts(): every address but the network and the broadcast address;
\* both addresses of a /31; the single address of a /32.
Hosts(network) ==
    LET n == NumAddresses(network)
    IN  IF network.prefix = 32 THEN << network.ip >>
        ELSE IF network.prefix = 31 THEN << network.ip, network.ip + 1 >>
        ELSE [i \in 1..(n - 2) |-> network.ip + i]

\* A faulty variant: a string that is no subnet is read as 192.168.1.0/24.
GenerateIpRangeInvalidAsDefault(subnet) ==
    IF subnet.kind # "cidr"
    THEN [ips |-> Hosts([ip |-> Ip(192, 168, 1, 0), prefix |-> 24]), warned |-> FALSE,
          error |-> TRUE]
    ELSE LET network == IpNetwork(subnet)
         IN  IF NumAddresses(network) > MaxScanAddresses
             THEN [ips |-> SubSeq(Hosts(network), 1, Min(MaxScanAddresses, Len(Hosts(network)))),
                   warned |-> TRUE, error |-> FALSE]
             ELSE [ips |-> Hosts(network), warned |-> FALSE, error |-> FALSE]

\* A faulty variant: the cap is applied to the address count, not to the host list.
GenerateIpRangeNoCap(subnet) ==
    IF subnet.kind # "cidr"
    THEN [ips |-> << >>, warned |-> FALSE, error |-> TRUE]
    ELSE LET network == IpNetwork(subnet)
         IN  IF NumAddresses(network) > MaxScanAddresses
             THEN [ips |-> SubSeq(Hosts(network), 1, MaxScanAddresses + 1), warned |-> TRUE, error |-> FALSE]
             ELSE [ips |-> Hosts(network), warned |-> FALSE, error |-> FALSE]

\* LinkPlayProvider._generate_ip_range: the candidate list, whether the
\* truncation warning was logged, whether the invalid-subnet error was logged.
GenerateIpRange(subnet) ==
    IF subnet.kind # "cidr"
    THEN [ips |-> << >>, warned |-> FALSE, error |-> TRUE]
    ELSE LET network == IpNetwork(subnet)
         IN  IF NumAddresses(network) > MaxScanAddresses
             THEN [ips |-> SubSeq(Hosts(network), 1, Min(MaxScanAddresses, Len(Hosts(network)))),
                   warned |-> TRUE, error |-> FALSE]
             ELSE [ips |-> Hosts(network), warned |-> FALSE, error |-> FALSE]

\* ------------------------------------------------------------------------
\* Devices and what a probed address answers
\* ------------------------------------------------------------------------
Devices == {"d1", "d2"}

\* A key of the registry, f"linkplay_{uuid}": the uuid the device reported
\* (src "uuid", the n-th vendor uuid) or the fallback ip.replace(".", "_")
\* (src "addr", the address).
UuidKey(n) == [src |-> "uuid", v |-> n]

AddrKey(ip) == [src |-> "addr", v |-> ip]

\* Where a device is that is off the network
Offline == Ip(0, 0, 0, 0)

\* What one HTTP GET of getStatusEx can come to.
Timeout == [kind |-> "timeout", body |-> "none", dev |-> "none", uuid |-> 0]

ConnError == [kind |-> "connerr", body |-> "none", dev |-> "none", uuid |-> 0]

Non200 == [kind |-> "non200", body |-> "none", dev |-> "none", uuid |-> 0]

Ok200NotJson == [kind |-> "ok200", body |-> "notjson", dev |-> "none", uuid |-> 0]

Ok200NonObject == [kind |-> "ok200", body |-> "nonobject", dev |-> "none", uuid |-> 0]

\* response.text() raising (a body that does not decode)
Ok200Undecodable == [kind |-> "ok200", body |-> "undecodable", dev |-> "none", uuid |-> 0]

\* 200 with the status object of device d, which holds a "uuid" member iff u > 0
Ok200Device(d, u) == [kind |-> "ok200", body |-> "object", dev |-> d, uuid |-> u]

FailureResponses == { Timeout, ConnError, Non200, Ok200NotJson, Ok200NonObject, Ok200Undecodable }

Returned(v) == [kind |-> "return", val |-> v, exc |-> "none"]

Raised(e) == [kind |-> "raise", val |-> None, exc |-> e]

DeviceInfoOf(ip, resp) ==
    [kind |-> "info",
     uuid |-> IF resp.uuid > 0 THEN UuidKey(resp.uuid) ELSE AddrKey(ip),
     name |-> resp.dev]

\* The body of the try block of _check_linkplay_device.
ProbeTry(ip, resp) ==
    CASE resp.kind = "timeout" -> Raised("TimeoutError")
      [] resp.kind = "connerr" -> Raised("ClientError")
      [] resp.kind = "non200" -> Returned(None)
      [] resp.kind = "ok200" /\ resp.body = "undecodable" -> Raised("UnicodeDecodeError")
      [] resp.kind = "ok200" /\ resp.body = "notjson" -> Raised("JSONDecodeError")
      [] resp.kind = "ok200" /\ resp.body = "nonobject" -> Raised("AttributeError")
      [] OTHER -> Returned(DeviceInfoOf(ip, resp))

\* A faulty variant: only the network errors are caught.
CheckLinkplayDeviceNarrow(ip, resp) ==
    LET r == ProbeTry(ip, resp)
    IN  IF r.kind = "raise" /\ r.exc \in {"ClientError", "TimeoutError"}
        THEN Returned(None)
        ELSE r

\* LinkPlayProvider._check_linkplay_device: what the call comes to, a return
\* of value val or an exception exc raised to the caller.
CheckLinkplayDevice(ip, resp) ==
    LET r == ProbeTry(ip, resp)
    IN  IF r.kind = "raise" /\ r.exc \in {"ClientError", "TimeoutError"}
        THEN Returned(None)
        ELSE IF r.kind = "raise"
        THEN Returned(None)
        ELSE r

\* asyncio.gather(..., return_exceptions=True): an exception raised by a
\* probe is that probe's entry of the results.
GatherEntry(outcome) ==
    IF outcome.kind = "raise" THEN [kind |-> "exc", exc |-> outcome.exc] ELSE outcome.val

Truthy(result) == result.kind # "None"

IsException(result) == result.kind = "exc"

\* A faulty variant: the truthiness test is dropped.
ResultKeptAnyValue(result) == ~IsException(result)

\* "if result and not isinstance(result, Exception)"
ResultKept(result) == Truthy(result) /\ ~IsException(result)

\* A faulty variant: one address more than batch_size.
BatchOffByOne(ips, i) == SubSeq(ips, i + 1, Min(i + batch_size + 1, Len(ips)))

\* ips_to_scan[i : i + batch_size]
Batch(ips, i) == SubSeq(ips, i + 1, Min(i + batch_size, Len(ips)))

Range(s) == { s[k] : k \in 1..Len(s) }

\* socket.gethostbyname(socket.gethostname()): the local address, or a failure.
LocalIpOutcomes == { [ok |-> TRUE, ip |-> Ip(10, 0, 1, 5)], [ok |-> FALSE, ip |-> 0] }

\* LinkPlayProvider._get_local_subnets: the /24 of the local address, or the
\* fallback list ["192.168.1.0/24", "192.168.0.0/24"].
GetLocalSubnets(local) ==
    IF local.ok
    THEN LET network == IpNetwork(Cidr(local.ip, 24))
         IN  << Cidr(network.ip, 24) >>
    ELSE << Cidr(Ip(192, 168, 1, 0), 24), Cidr(Ip(192, 168, 0, 0), 24) >>

\* A faulty variant: only a missing value is detected automatically.
AutoDetectNoneOnly(subnet) == subnet.kind = "none"

\* "if not subnet or subnet == '192.168.0.0/16'": the subnets are derived
\* from the local address
AutoDetect(subnet) == subnet.kind = "none" \/ subnet = DEFAULT_SUBNET

\* "subnets = await self._get_local_subnets()" ... "else: subnets = [subnet]"
SubnetsToScan(subnet, local) ==
    IF AutoDetect(subnet)
    THEN GetLocalSubnets(local)
    ELSE << subnet >>

\* LinkPlayPlayer.__init__
NewPlayer(ip_address, device_info) ==
    [ip_address |-> ip_address,
     name |-> device_info.name,
     available |-> TRUE,
     powered |-> TRUE,
     playback_state |-> "idle",
     volume_level |-> 50,
     volume_muted |-> FALSE,
     current_media |-> "none",
     play_start_time |-> 0,
     last_status |-> "none"]

\* player_id = f"linkplay_{device_info['uuid']}"
PlayerId(ip_address, device_info) == device_info.uuid

\* A faulty variant: the moved device is entered a second time, under its address.
UpdateAddressDuplicating(P, player_id, ip_address) ==
    IF AddrKey(ip_address) \in DOMAIN P
    THEN P
    ELSE (AddrKey(ip_address) :> [P[player_id] EXCEPT !.ip_address = ip_address]) @@ P

\* "if player.ip_address != ip_address: player.ip_address = ip_address"
UpdateAddress(P, player_id, ip_address) ==
    IF P[player_id].ip_address # ip_address
    THEN [P EXCEPT ![player_id].ip_address = ip_address]
    ELSE P

VARIABLES
    \* the environment: the configured subnet, the uuid each device reports
    \* (0: none), where each device is
    cfgSubnet, uuidOf, devAddr, moves,
    \* discover_players / _scan_network: where the coroutine is, its locals
    discPc, cycles, subnets, ips_to_scan, batchStart, inflight, results, discovered, todo,
    \* LinkPlayProvider._players, and the calls of mass.players.register_or_update
    players, registerCalls, registerRaised,
    \* history: the probes started in order, the candidates generated in order,
    \* the last probe's response and outcome, the addresses that identified a
    \* device, where each device answered, the device a record was made for,
    \* the last step of the reconciliation, what gethostbyname came to in
    \* this cycle (<< >> where _get_local_subnets was not called)
    probeLog, candAll, lastProbe, identified, answeredAt, recDev, lastOp, localSeen

varsEnv == << cfgSubnet, uuidOf, devAddr, moves >>

varsScan == << subnets, ips_to_scan, batchStart, inflight, results, discovered >>

varsScanHist == << probeLog, candAll, lastProbe, identified, answeredAt, localSeen >>

varsReg == << players, registerCalls, registerRaised, recDev, todo, lastOp >>

varsProvider == << varsEnv, discPc, cycles, varsScan, varsScanHist, varsReg >>

NoOp == [op |-> "none", player_id |-> UuidKey(0), old |-> 0, new |-> 0]

NoProbe == [resp |-> Timeout, outcome |-> Returned(None), seen |-> FALSE]

\* The provider after handle_async_init, before the first discovery.
InitProviderWith(subnetCfgs, uuidChoices, placements, registry) ==
    /\ cfgSubnet \in subnetCfgs
    /\ uuidOf \in uuidChoices
    /\ devAddr \in placements
    /\ moves = 0
    /\ discPc = "idle"
    /\ cycles = 0
    /\ subnets = << >>
    /\ ips_to_scan = << >>
    /\ batchStart = 0
    /\ inflight = {}
    /\ results = << >>
    /\ discovered = << >>
    /\ todo = << >>
    /\ players = registry
    /\ registerCalls = [player_id \in DOMAIN registry |-> 1]
    /\ registerRaised = {}
    /\ probeLog = << >>
    /\ candAll = << >>
    /\ lastProbe = NoProbe
    /\ identified = {}
    /\ answeredAt = [d \in Devices |-> {}]
    /\ localSeen = << >>
    /\ recDev = [player_id \in DOMAIN registry |-> registry[player_id].name]
    /\ lastOp = NoOp

\* The provider part of a specification that does not run the provider.
ProviderOff ==
    /\ InitProviderWith({NoSubnet}, {[d \in Devices |-> 0]}, {[d \in Devices |-> Offline]},
                        << >>)

\* -- discover_players, up to the call of _scan_network ----------------------
StartDiscover(maxCycles, localOutcomes) ==
    /\ discPc = "idle"
    /\ cycles < maxCycles
    /\ \E local \in localOutcomes :
           /\ subnets' = SubnetsToScan(cfgSubnet, local)
           /\ localSeen' = IF AutoDetect(cfgSubnet) THEN << local >> ELSE << >>
    /\ cycles' = cycles + 1
    /\ discovered' = << >>
    /\ probeLog' = << >>
    /\ candAll' = << >>
    /\ identified' = {}
    /\ discPc' = "next_subnet"
    /\ UNCHANGED << varsEnv, ips_to_scan, batchStart, inflight, results, lastProbe,
                    answeredAt, varsReg >>

\* A faulty variant: the players the scan did not find are dropped.
RegistryAfterScanPruned(P, found) ==
    [player_id \in { k \in DOMAIN P : \E i \in 1..Len(found) : found[i].info.uuid = k } |->
        P[player_id]]

\* discover_players, between the scan and its loop over discovered.items():
\* nothing is done about the players of _players the scan did not find
RegistryAfterScan(P, found) == P

\* -- "for subnet_str in subnets": the next subnet's candidates, or the return
NextSubnet ==
    /\ discPc = "next_subnet"
    /\ IF subnets = << >>
       THEN /\ discPc' = "reconcile"
            /\ todo' = discovered
            /\ players' = RegistryAfterScan(players, discovered)
            /\ UNCHANGED << subnets, ips_to_scan, batchStart, candAll >>
       ELSE /\ ips_to_scan' = GenerateIpRange(Head(subnets)).ips
            /\ subnets' = Tail(subnets)
            /\ batchStart' = 0
            /\ candAll' = candAll \o GenerateIpRange(Head(subnets)).ips
            /\ discPc' = "next_batch"
            /\ UNCHANGED << todo, players >>
    /\ UNCHANGED << varsEnv, cycles, inflight, results, discovered, probeLog, lastProbe,
                    identified, answeredAt, localSeen, registerCalls, registerRaised, recDev, lastOp >>

\* -- "for i in range(0, len(ips_to_scan), batch_size)": every probe of the
\*    batch is started by the gather
DispatchBatch ==
    /\ discPc = "next_batch"
    /\ IF batchStart < Len(ips_to_scan)
       THEN /\ inflight' = inflight \cup Range(Batch(ips_to_scan, batchStart))
            /\ probeLog' = probeLog \o Batch(ips_to_scan, batchStart)
            /\ results' = << >>
            /\ discPc' = "gather"
       ELSE /\ discPc' = "next_subnet"
            /\ UNCHANGED << inflight, probeLog, results >>
    /\ UNCHANGED << varsEnv, cycles, subnets, ips_to_scan, batchStart, discovered, candAll,
                    lastProbe, identified, answeredAt, localSeen, varsReg >>

\* What the host at an address answers to a probe: the device that is there,
\* or a failure of some kind.
Responses(ip, failures) ==
    { Ok200Device(d, uuidOf[d]) : d \in { e \in Devices : devAddr[e] = ip } }
        \cup failures

\* The unresolved probes of the batch that may resolve next.
Resolvable ==
    LET Pending(a) == a \in inflight
        pending == SelectSeq(Batch(ips_to_scan, batchStart), Pending)
    IN  Range(SubSeq(pending, 1, Min(ResolveWindow, Len(pending))))

\* -- one probe of the batch resolves
ResolveProbe(failures) ==
    /\ discPc = "gather"
    /\ \E ip \in Resolvable :
         \E resp \in Responses(ip, failures) :
           LET outcome == CheckLinkplayDevice(ip, resp)
               isDevice == resp.kind = "ok200" /\ resp.body = "object"
           IN  /\ results' = (ip :> GatherEntry(outcome)) @@ results
               /\ inflight' = inflight \ {ip}
               /\ lastProbe' = [resp |-> resp, outcome |-> outcome, seen |-> TRUE]
               /\ identified' = IF isDevice THEN identified \cup {ip} ELSE identified
               /\ answeredAt' = IF isDevice
                                THEN [answeredAt EXCEPT ![resp.dev] = @ \cup {ip}]
                                ELSE answeredAt
    /\ UNCHANGED << varsEnv, discPc, cycles, subnets, ips_to_scan, batchStart, discovered,
                    probeLog, candAll, localSeen, varsReg >>

\* A faulty variant: the batch is not awaited.
GatherDoneAtOnce == TRUE

\* "results = await asyncio.gather(...)": every probe of the batch has resolved
GatherDone == inflight = {}

\* "for ip, result in zip(batch, results): if ...: discovered[ip] = result",
\* on a dict that keeps its insertion order: an address already in it has its
\* value replaced in place, a new one is added at the end. The addresses of a
\* batch are distinct (a slice of the hosts of one network).
Collect(batch, res, found) ==
    LET ResultOf(ip) == IF ip \in DOMAIN res THEN res[ip] ELSE None
        kept == SelectSeq(batch, LAMBDA ip : ResultKept(ResultOf(ip)))
        known == { found[k].ip : k \in 1..Len(found) }
        fresh == SelectSeq(kept, LAMBDA ip : ip \notin known)
    IN  [k \in 1..Len(found) |->
            IF found[k].ip \in Range(kept)
            THEN [ip |-> found[k].ip, info |-> ResultOf(found[k].ip)]
            ELSE found[k]]
        \o [k \in 1..Len(fresh) |-> [ip |-> fresh[k], info |-> ResultOf(fresh[k])]]

\* -- the gather returns; the batch's results are collected
CollectBatch ==
    /\ discPc = "gather"
    /\ GatherDone
    /\ discovered' = Collect(Batch(ips_to_scan, batchStart), results, discovered)
    /\ batchStart' = batchStart + batch_size
    /\ discPc' = "next_batch"
    /\ lastProbe' = NoProbe
    /\ UNCHANGED << varsEnv, cycles, subnets, ips_to_scan, inflight, results, probeLog,
                    candAll, identified, answeredAt, localSeen, varsReg >>

\* -- "for ip_address, device_info in discovered.items()": one item. A known
\*    player has its address refreshed; a new one is built, entered in _players
\*    and handed to register_or_update, which is awaited.
ReconcileOne ==
    /\ discPc = "reconcile"
    /\ todo # << >>
    /\ LET ip_address == Head(todo).ip
           device_info == Head(todo).info
           player_id == PlayerId(ip_address, device_info)
       IN  IF player_id \in DOMAIN players
           THEN /\ players' = UpdateAddress(players, player_id, ip_address)
                /\ lastOp' = [op |-> IF players[player_id].ip_address # ip_address
                                     THEN "ip_update" ELSE "unchanged",
                              player_id |-> player_id,
                              old |-> players[player_id].ip_address,
                              new |-> ip_address]
                /\ UNCHANGED << registerCalls, registerRaised, recDev, discPc >>
           ELSE /\ players' = (player_id :> NewPlayer(ip_address, device_info)) @@ players
                /\ registerCalls' = (player_id :> 1) @@ registerCalls
                /\ registerRaised' = registerRaised
                /\ recDev' = (player_id :> device_info.name) @@ recDev
                /\ lastOp' = [op |-> "register", player_id |-> player_id,
                              old |-> ip_address, new |-> ip_address]
                /\ discPc' = "await_register"
    /\ todo' = Tail(todo)
    /\ UNCHANGED << varsEnv, cycles, varsScan, varsScanHist >>

\* -- register_or_update returns to _register_player
RegisterReturns ==
    /\ discPc = "await_register"
    /\ discPc' = "reconcile"
    /\ UNCHANGED << varsEnv, cycles, varsScan, varsScanHist, varsReg >>

\* _register_player, "except Exception as e: self.logger.exception(...)":
\* _players after register_or_update raised
RegistryAfterRaise(P, player_id) == P

\* -- register_or_update raises: the exception is logged in _register_player
\*    and the loop of discover_players goes on
RegisterRaises ==
    /\ discPc = "await_register"
    /\ discPc' = "reconcile"
    /\ players' = RegistryAfterRaise(players, lastOp.player_id)
    /\ registerRaised' = registerRaised \cup {lastOp.player_id}
    /\ UNCHANGED << varsEnv, cycles, varsScan, varsScanHist, registerCalls, recDev, todo,
                    lastOp >>

\* -- discover_players returns
DiscoverReturns ==
    /\ discPc = "reconcile"
    /\ todo = << >>
    /\ discPc' = "idle"
    /\ UNCHANGED << varsEnv, cycles, varsScan, varsScanHist, varsReg >>

\* -- a device leaves the network or shows up at another address, while the
\*    provider is suspended
DeviceMoves(spots, maxMoves) ==
    /\ discPc \in {"idle", "gather"}
    /\ moves < maxMoves
    /\ \E d \in Devices :
         \E a \in spots \cup {Offline} :
           /\ a # devAddr[d]
           /\ a = Offline \/ \A e \in Devices : devAddr[e] # a
           /\ devAddr' = [devAddr EXCEPT ![d] = a]
    /\ moves' = moves + 1
    /\ UNCHANGED << cfgSubnet, uuidOf, discPc, cycles, varsScan, varsScanHist, varsReg >>

\* ------------------------------------------------------------------------
\* The player: the command channel, the commands and the poll
\* ------------------------------------------------------------------------
\* A member of a status object: an int n, a string that int() reads as n, a
\* string it does not read, a value of another type, or no such member.
IntVal(n) == [k |-> "int", n |-> n]

NumStr(n) == [k |-> "numstr", n |-> n]

OtherStr == [k |-> "str", n |-> 0]

OtherType == [k |-> "other", n |-> 0]

Missing == [k |-> "missing", n |-> 0]

\* A parsed JSON body: an object with (or without) the members "status",
\* "vol", "mute" and "response", empty or not; any other truthy value; any
\* other falsy value.
JsonObject(status, vol, mute) ==
    [kind |-> "json", t |-> "dict", empty |-> FALSE, status |-> status, vol |-> vol,
     mute |-> mute, response |-> "missing"]

EmptyObject ==
    [kind |-> "json", t |-> "dict", empty |-> TRUE, status |-> "missing", vol |-> Missing,
     mute |-> Missing, response |-> "missing"]

JsonList ==
    [kind |-> "json", t |-> "list", empty |-> FALSE, status |-> "missing", vol |-> Missing,
     mute |-> Missing, response |-> "missing"]

JsonFalsy ==
    [kind |-> "json", t |-> "falsy", empty |-> TRUE, status |-> "missing", vol |-> Missing,
     mute |-> Missing, response |-> "missing"]

\* {"response": text}
FallbackObject(text) == [JsonObject("missing", Missing, Missing) EXCEPT !.response = text]

\* What one HTTP GET of a command can come to.
HttpTimeout == [kind |-> "timeout", body |-> "none", json |-> JsonFalsy, text |-> ""]

HttpConnError == [kind |-> "connerr", body |-> "none", json |-> JsonFalsy, text |-> ""]

HttpNon200 == [kind |-> "non200", body |-> "none", json |-> JsonFalsy, text |-> ""]

\* 200 with a body that response.text() cannot decode
HttpUndecodable == [kind |-> "ok200", body |-> "undecodable", json |-> JsonFalsy, text |-> ""]

\* 200 with a body text that json.loads rejects
HttpText(text) == [kind |-> "ok200", body |-> "text", json |-> JsonFalsy, text |-> text]

\* 200 with a body text that json.loads reads as j
HttpJson(j) == [kind |-> "ok200", body |-> "json", json |-> j, text |-> "json"]

\* The body of the try block of _send_command.
SendTry(resp) ==
    CASE resp.kind = "timeout" -> Raised("TimeoutError")
      [] resp.kind = "connerr" -> Raised("ClientError")
      [] resp.kind = "non200" -> Returned(None)
      [] resp.kind = "ok200" /\ resp.body = "undecodable" -> Raised("UnicodeDecodeError")
      [] resp.kind = "ok200" /\ resp.body = "text" -> Returned(FallbackObject(resp.text))
      [] OTHER -> Returned(resp.json)

\* LinkPlayPlayer._send_command: what the call comes to
SendCommand(resp) ==
    LET r == SendTry(resp)
    IN  IF r.kind = "raise" /\ r.exc \in {"ClientError", "TimeoutError"}
        THEN Returned(None)
        ELSE r

\* A faulty variant: a request that failed on the network is sent once more.
SendRequestsRetrying(command, resp) ==
    IF resp.kind \in {"timeout", "connerr"} THEN << command, command >> ELSE << command >>

\* LinkPlayPlayer._send_command: the requests it issues, whatever the first
\* one comes to ("async with session.get(url) as response", in no loop)
SendRequests(command, resp) == << command >>

\* A faulty variant: a failed send marks the player unavailable.
SendCommandMarksUnavailable(player, resp) ==
    IF SendCommand(resp) = Returned(None) THEN [player EXCEPT !.available = FALSE] ELSE player

\* LinkPlayPlayer._send_command: the player as the call leaves it ("Don't set
\* unavailable here - let poll() handle availability": it assigns nothing)
SendCommandRecord(player, resp) == player

\* Python's truth value of what _send_command returned
IsTrue(v) == v.kind # "None" /\ v.t # "falsy" /\ ~(v.t = "dict" /\ v.empty)

\* A faulty variant: no grace period.
PlaybackStateNoGrace(player, play_status, t) ==
    IF play_status = "play" THEN "playing"
    ELSE IF play_status = "pause" THEN "paused"
    ELSE "idle"

\* _update_from_status, "Update state": the grace period keeps PLAYING
PlaybackStateFor(player, play_status, t) ==
    IF play_status = "play" THEN "playing"
    ELSE IF play_status = "pause" THEN "paused"
    ELSE IF t - player.play_start_time < GraceSeconds /\ player.playback_state = "playing"
         THEN player.playback_state
         ELSE "idle"

\* _update_from_status, "Update volume"
VolumeFor(player, status) ==
    LET volume == IF status.vol = Missing THEN IntVal(0) ELSE status.vol
    IN  IF volume.k \in {"int", "numstr"} THEN volume.n ELSE player.volume_level

\* LinkPlayPlayer._update_from_status at time t: the player as the call leaves
\* it, and the exception it raises, if any.
UpdateFromStatus(player, status, t) ==
    LET p1 == [player EXCEPT !.last_status = status, !.available = TRUE]
        play_status == IF status.status = "missing" THEN "stop" ELSE status.status
        p2 == [p1 EXCEPT !.playback_state = PlaybackStateFor(p1, play_status, t)]
        p3 == [p2 EXCEPT !.volume_level = VolumeFor(p2, status)]
        mute == IF status.mute = Missing THEN IntVal(0) ELSE status.mute
    IN  IF status.t # "dict"
        THEN [player |-> p1, exc |-> "AttributeError"]
        ELSE IF mute.k = "str"
        THEN [player |-> p3, exc |-> "ValueError"]
        ELSE [player |-> [p3 EXCEPT !.volume_muted =
                                IF mute.k \in {"int", "numstr"} THEN mute.n # 0 ELSE FALSE],
              exc |-> "none"]

\* poll, "else: ... self._attr_playback_state = PlaybackState.IDLE"
NoStatusState(player, t) == "idle"

\* A faulty variant: a device that does not answer is also set to idle.
UnreachableResets(player) == [player EXCEPT !.available = FALSE, !.playback_state = "idle"]

\* poll, "if not device_status: ... self._attr_available = False"
Unreachable(player) == [player EXCEPT !.available = FALSE]

\* A faulty variant: only the errors of the network are caught.
PollExceptNarrow(player, exc) ==
    IF exc \in {"ClientError", "TimeoutError"}
    THEN [player |-> [player EXCEPT !.available = FALSE], published |-> 1, raised |-> FALSE]
    ELSE [player |-> player, published |-> 0, raised |-> TRUE]

\* poll, "except Exception as err: ... self._attr_available = False;
\* self.update_state()": the player, the calls of update_state, whether the
\* exception leaves poll
PollExcept(player, exc) ==
    [player |-> [player EXCEPT !.available = FALSE], published |-> 1, raised |-> FALSE]

\* The writes a command makes once its (last) _send_command has returned:
\* play_media(arg), play, pause, stop, power(arg = "on"), volume_set(level),
\* volume_mute(arg = "on").
CommandWrites(player, op, arg, level, t) ==
    CASE op = "play_media" ->
            [player EXCEPT !.play_start_time = t, !.playback_state = "playing",
                           !.current_media = arg]
      [] op = "play" -> [player EXCEPT !.playback_state = "playing"]
      [] op = "pause" -> [player EXCEPT !.playback_state = "paused"]
      [] op = "stop" -> [player EXCEPT !.playback_state = "idle", !.current_media = "none"]
      [] op = "power" ->
            [player EXCEPT !.playback_state = IF arg = "on" THEN "playing" ELSE "paused",
                           !.powered = (arg = "on")]
      [] op = "volume_set" -> [player EXCEPT !.volume_level = level]
      [] op = "volume_mute" -> [player EXCEPT !.volume_muted = (arg = "on")]
      [] OTHER -> player

\* A faulty variant: a command the device did not answer writes nothing.
CommandWritesIfAnswered(player, r, op, arg, level, t) ==
    IF r.val = None THEN player ELSE CommandWrites(player, op, arg, level, t)

\* The writes of a command handler after its last _send_command returned r:
\* the handlers do not look at r (play_media logs a warning "if result is
\* None" and goes on)
CommandWritesAfter(player, r, op, arg, level, t) ==
    CommandWrites(player, op, arg, level, t)

\* The media URIs that hold a "?"
UrisWithQuery == { "http://mass/flow/1.flac?sid=7" }

\* "?" in uri
HasQuery(uri) == uri \in UrisWithQuery

\* A faulty variant: the query parameter is always appended.
PlayUriAlwaysSuffixed(uri) == [uri |-> uri, suffix |-> "?linkplay=1"]

\* play_media, 'if "?" not in uri: uri = uri + "?linkplay=1"': the URI sent,
\* as the media URI and what is appended to it
PlayUri(uri) == [uri |-> uri, suffix |-> IF ~HasQuery(uri) THEN "?linkplay=1" ELSE ""]

NoUri == [uri |-> "none", suffix |-> ""]

\* What a command handler does at its step: the command it sends (with the
\* URI or the level that ends it), or the asyncio.sleep(0.5) it awaits.
WireCommand(c) == [c |-> c, uri |-> NoUri, level |-> 0]

Request(op, arg, level, step) ==
    CASE op = "play_media" /\ step = 1 -> WireCommand("setPlayerCmd:stop")
      [] op = "play_media" /\ step = 2 -> WireCommand("sleep")
      [] op = "play_media" /\ step = 3 -> WireCommand("setPlayerCmd:switchmode:wifi")
      [] op = "play_media" /\ step = 4 -> WireCommand("sleep")
      [] op = "play_media" /\ step = 5 ->
            [c |-> "setPlayerCmd:play:", uri |-> PlayUri(arg), level |-> 0]
      [] op = "play" -> WireCommand("setPlayerCmd:resume")
      [] op = "pause" -> WireCommand("setPlayerCmd:pause")
      [] op = "stop" -> WireCommand("setPlayerCmd:stop")
      [] op = "power" -> WireCommand(IF arg = "on" THEN "PLAY" ELSE "PAUSE")
      [] op = "volume_set" -> [c |-> "setPlayerCmd:vol:", uri |-> NoUri, level |-> level]
      [] op = "volume_mute" ->
            WireCommand(IF arg = "on" THEN "setPlayerCmd:mute:1" ELSE "setPlayerCmd:mute:0")
      [] OTHER -> WireCommand("none")

VARIABLES
    \* time.time(), in seconds
    now,
    \* where the poll coroutine is, and where the command in progress is
    pollPc, cmd,
    \* history: the kind of write another writer made to the record since the
    \* running poll tick's first write; the poll tick that has just ended;
    \* whether a tick was held at PLAYING by the grace period since play_media
    \* the number of play_media calls so far
    foreign, lastPoll, suppressed, plays

varsPlayer == << now, pollPc, cmd, foreign, lastPoll, suppressed, plays >>

\* The one player of the specifications of the player.
Pid == UuidKey(1)

NoCmd == [op |-> "none", arg |-> "none", level |-> 0, step |-> 0]

NoPoll ==
    [seen |-> FALSE, branch |-> "none", status |-> "none", prev |-> "none", elapsed |-> 0,
     played |-> FALSE, after |-> "none", available |-> FALSE, foreign |-> "none",
     published |-> 0, raised |-> FALSE, ex |-> "none", sent |-> 0]

PlayerOff ==
    /\ now = 0
    /\ pollPc = "idle"
    /\ cmd = NoCmd
    /\ foreign = "none"
    /\ lastPoll = NoPoll
    /\ suppressed = FALSE
    /\ plays = 0

\* -- time passes. The clock is read by play_media and, by _update_from_status,
\*    against _play_start_time: it is left at its start until the first
\*    play_media has set _play_start_time (till then no reading depends on it).
Tick(maxTime) ==
    /\ now < maxTime
    /\ Pid \in DOMAIN players
    /\ players[Pid].play_start_time > 0
    /\ now' = now + 1
    /\ lastPoll' = NoPoll
    /\ UNCHANGED << pollPc, cmd, foreign, suppressed, plays, varsProvider >>

\* -- poll is called: getStatusEx is sent
PollStart ==
    /\ pollPc = "idle"
    /\ Pid \in DOMAIN players
    /\ pollPc' = "await_ex"
    /\ lastPoll' = NoPoll
    /\ foreign' = "none"
    /\ UNCHANGED << now, cmd, suppressed, plays, varsProvider >>

\* The tick that ends: its branch, the status it read, the record before and
\* after its last step, the calls of update_state, whether an exception left
\* poll, what getStatusEx came to and the commands sent.
PollEnds(branch, status, before, after, published, raised, ex, sent) ==
    [seen |-> TRUE, branch |-> branch, status |-> status, prev |-> before.playback_state,
     elapsed |-> now - before.play_start_time, played |-> before.play_start_time > 0,
     after |-> after.playback_state, available |-> after.available, foreign |-> foreign,
     published |-> published, raised |-> raised, ex |-> ex, sent |-> sent]

\* -- getStatusEx has returned: the device is unavailable and the tick ends,
\*    or it is available and getPlayerStatus is sent
PollDeviceStatus(responses) ==
    /\ pollPc = "await_ex"
    /\ \E resp \in responses :
         LET r == SendCommand(resp)
             player == SendCommandRecord(players[Pid], resp)
             caught == PollExcept(player, r.exc)
             down == Unreachable(player)
         IN  IF r.kind = "raise"
             THEN /\ players' = [players EXCEPT ![Pid] = caught.player]
                  /\ pollPc' = "idle"
                  /\ lastPoll' = PollEnds("error", "none", players[Pid], caught.player,
                                          caught.published, caught.raised, resp.kind, 1)
             ELSE IF ~IsTrue(r.val)
             THEN /\ players' = [players EXCEPT ![Pid] = down]
                  /\ pollPc' = "idle"
                  /\ lastPoll' = PollEnds("unreachable", "none", players[Pid], down, 1, FALSE,
                                          resp.kind, 1)
             ELSE /\ players' = [players EXCEPT ![Pid] = [player EXCEPT !.available = TRUE]]
                  /\ pollPc' = "await_status"
                  /\ UNCHANGED lastPoll
    /\ foreign' = "none"
    /\ UNCHANGED << now, cmd, suppressed, plays, varsEnv, discPc, cycles, varsScan,
                    varsScanHist, registerCalls, registerRaised, recDev, todo, lastOp >>

\* -- getPlayerStatus has returned: the record is brought up to date and published
PollPlayerStatus(responses) ==
    /\ pollPc = "await_status"
    /\ \E resp \in responses :
         LET r == SendCommand(resp)
             player == SendCommandRecord(players[Pid], resp)
             caught == PollExcept(player, r.exc)
             u == UpdateFromStatus(player, r.val, now)
             ucaught == PollExcept(u.player, u.exc)
             idle == [player EXCEPT !.playback_state = NoStatusState(player, now)]
             held(after) == /\ player.playback_state = "playing"
                            /\ after.playback_state = "playing"
                            /\ now - player.play_start_time < GraceSeconds
         IN  IF r.kind = "raise"
             THEN /\ players' = [players EXCEPT ![Pid] = caught.player]
                  /\ lastPoll' = PollEnds("error", "none", players[Pid], caught.player,
                                          caught.published, caught.raised, "ok200", 2)
                  /\ UNCHANGED suppressed
             ELSE IF IsTrue(r.val)
             THEN /\ players' = [players EXCEPT ![Pid] =
                                    IF u.exc = "none" THEN u.player ELSE ucaught.player]
                  /\ lastPoll' = PollEnds(IF u.exc = "none" THEN "status" ELSE "status_error",
                                          IF r.val.t = "dict" THEN r.val.status ELSE "none",
                                          players[Pid], players'[Pid],
                                          IF u.exc = "none" THEN 1 ELSE ucaught.published,
                                          IF u.exc = "none" THEN FALSE ELSE ucaught.raised,
                                          "ok200", 2)
                  /\ suppressed' = (suppressed \/ (r.val.t = "dict"
                                                   /\ r.val.status \notin {"play", "pause"}
                                                   /\ held(u.player)))
             ELSE /\ players' = [players EXCEPT ![Pid] = idle]
                  /\ lastPoll' = PollEnds("nostatus", "none", players[Pid], idle, 1, FALSE,
                                          "ok200", 2)
                  /\ UNCHANGED suppressed
    /\ pollPc' = "idle"
    /\ foreign' = "none"
    /\ UNCHANGED << now, cmd, plays, varsEnv, discPc, cycles, varsScan, varsScanHist,
                    registerCalls, registerRaised, recDev, todo, lastOp >>

\* -- a command is called: its first _send_command is sent
CommandStart(commands, maxPlays) ==
    /\ cmd = NoCmd
    /\ Pid \in DOMAIN players
    /\ \E c \in commands :
         /\ c.op = "play_media" => plays < maxPlays
         /\ cmd' = [op |-> c.op, arg |-> c.arg, level |-> c.level, step |-> 1]
         /\ plays' = IF c.op = "play_media" THEN plays + 1 ELSE plays
    /\ lastPoll' = NoPoll
    /\ UNCHANGED << now, pollPc, foreign, suppressed, varsProvider >>

\* play_media awaits stop (1), sleeps (2), awaits switchmode (3), sleeps (4)
\* and awaits play (5); every other command awaits one _send_command (1).
LastStep(op) == IF op = "play_media" THEN 5 ELSE 1

\* -- the _send_command a command awaits has returned (or raised, which ends
\*    the command): the next step, or the command's writes
CommandReturns(responses) ==
    /\ cmd # NoCmd
    /\ cmd.step \in {1, 3, 5}
    /\ \E resp \in responses :
         LET r == SendCommand(resp)
         IN  IF r.kind = "raise"
             THEN /\ cmd' = NoCmd
                  /\ UNCHANGED << players, foreign, suppressed >>
             ELSE IF cmd.step < LastStep(cmd.op)
             THEN /\ cmd' = [cmd EXCEPT !.step = cmd.step + 1]
                  /\ players' = [players EXCEPT ![Pid] = SendCommandRecord(@, resp)]
                  /\ UNCHANGED << foreign, suppressed >>
             ELSE /\ cmd' = NoCmd
                  /\ players' = [players EXCEPT ![Pid] =
                                    CommandWritesAfter(SendCommandRecord(@, resp), r, cmd.op,
                                                       cmd.arg, cmd.level, now)]
                  /\ foreign' = IF pollPc = "await_status" THEN "state" ELSE foreign
                  /\ suppressed' = IF cmd.op = "play_media" THEN FALSE ELSE suppressed
    /\ lastPoll' = NoPoll
    /\ UNCHANGED << now, pollPc, plays, varsEnv, discPc, cycles, varsScan, varsScanHist,
                    registerCalls, registerRaised, recDev, todo, lastOp >>

\* -- an asyncio.sleep(0.5) of play_media is over: the next command is sent
SleepReturns ==
    /\ cmd # NoCmd
    /\ cmd.step \in {2, 4}
    /\ cmd' = [cmd EXCEPT !.step = cmd.step + 1]
    /\ lastPoll' = NoPoll
    /\ UNCHANGED << now, pollPc, foreign, suppressed, plays, varsProvider >>

\* ------------------------------------------------------------------------
\* The provider's tasks: loaded_in_mass, the periodic discovery, unload
\* ------------------------------------------------------------------------
VARIABLES
    \* loaded_in_mass: the statement it is at (1: the call of discover_players,
    \* 2: the creation of the periodic task, 3: returned)
    loadPc,
    \* _periodic_discovery: "none" (no task yet), "sleep", "discover", "done";
    \* whether a cancel() of it waits to be delivered
    perPc, cancelReq,
    \* the activation of discover_players of each task: where it is, the
    \* discovered items it has still to reconcile
    disc,
    \* unload: where it is, the argument is_removed, its _unregister_player
    \* tasks, the calls of mass.players.unregister in order
    unloadPc, isRemoved, unregTasks, unregCalls,
    \* history: the keys of _players when unload started, how each iteration
    \* of the periodic loop ended
    unloadSeen, iterLog

varsLife == << loadPc, perPc, cancelReq, disc, unloadPc, isRemoved, unregTasks, unregCalls,
               unloadSeen, iterLog >>

Tasks == {"load", "periodic"}

DiscOff == [pc |-> "off", todo |-> << >>]

\* The provider part of a specification that runs no task.
LifeOff ==
    /\ loadPc = 1
    /\ perPc = "none"
    /\ cancelReq = FALSE
    /\ disc = [t \in Tasks |-> DiscOff]
    /\ unloadPc = "none"
    /\ isRemoved = FALSE
    /\ unregTasks = << >>
    /\ unregCalls = << >>
    /\ unloadSeen = {}
    /\ iterLog = << >>

\* A faulty variant: the periodic task is created before the first discovery.
LoadedInMassTaskFirst == << "create_task", "discover" >>

\* LinkPlayProvider.loaded_in_mass: "await self.discover_players()", then
\* "self._scan_task = self.mass.create_task(self._periodic_discovery())"
LoadedInMass == << "discover", "create_task" >>

\* A faulty variant: an exception ends the loop.
PeriodicAfterNoCatch(outcome) ==
    IF outcome \in {"cancelled", "sleep_raised"} THEN "done" ELSE "sleep"

\* _periodic_discovery, where the loop goes after an iteration: back to the
\* sleep when discover_players returned or an Exception was caught, out of
\* the loop on CancelledError.
PeriodicAfter(outcome) ==
    IF outcome = "cancelled" THEN "done" ELSE "sleep"

\* -- loaded_in_mass runs its next statement
LoadStep ==
    /\ loadPc <= Len(LoadedInMass)
    /\ disc["load"].pc = "off"
    /\ IF LoadedInMass[loadPc] = "discover"
       THEN /\ disc' = [disc EXCEPT !["load"] = [pc |-> "scan", todo |-> << >>]]
            /\ UNCHANGED << loadPc, perPc >>
       ELSE /\ perPc' = "sleep"
            /\ loadPc' = loadPc + 1
            /\ UNCHANGED disc
    /\ UNCHANGED << cancelReq, unloadPc, isRemoved, unregTasks, unregCalls, unloadSeen,
                    iterLog, varsProvider >>

\* -- the asyncio.sleep(interval) of the periodic task is over (or raises):
\*    discover_players is called, up to its await of _scan_network
SleepOver(maxIterations, sleepOutcomes) ==
    /\ perPc = "sleep"
    /\ ~cancelReq
    /\ Len(iterLog) < maxIterations
    /\ \E o \in sleepOutcomes :
         IF o = "ok"
         THEN /\ perPc' = "discover"
              /\ disc' = [disc EXCEPT !["periodic"] = [pc |-> "scan", todo |-> << >>]]
              /\ UNCHANGED iterLog
         ELSE /\ perPc' = PeriodicAfter("sleep_raised")
              /\ iterLog' = Append(iterLog, "sleep_raised")
              /\ UNCHANGED disc
    /\ UNCHANGED << loadPc, cancelReq, unloadPc, isRemoved, unregTasks, unregCalls,
                    unloadSeen, varsProvider >>

RECURSIVE SkipKnown(_, _)
\* "for ip_address, device_info in discovered.items()", up to the first new
\* player: the known players have their address refreshed, without an await.
SkipKnown(P, items) ==
    IF items = << >> \/ PlayerId(Head(items).ip, Head(items).info) \notin DOMAIN P
    THEN [players |-> P, todo |-> items]
    ELSE SkipKnown(UpdateAddress(P, PlayerId(Head(items).ip, Head(items).info), Head(items).ip),
                   Tail(items))

\* discover_players of task t returns: loaded_in_mass goes on to its next
\* statement, the periodic loop to its next iteration.
EndDiscover(t, outcome) ==
    /\ disc' = [disc EXCEPT ![t] = DiscOff]
    /\ IF t = "load"
       THEN /\ loadPc' = loadPc + 1
            /\ UNCHANGED << perPc, iterLog >>
       ELSE /\ perPc' = PeriodicAfter(outcome)
            /\ iterLog' = Append(iterLog, outcome)
            /\ UNCHANGED loadPc

\* The reconciliation loop of task t from the given items to its next await
\* (register_or_update of a new player) or to the return.
Reconcile(t, items) ==
    LET k == SkipKnown(players, items)
    IN  IF k.todo = << >>
        THEN /\ players' = k.players
             /\ EndDiscover(t, "ok")
             /\ UNCHANGED << registerCalls, registerRaised, recDev >>
        ELSE LET ip_address == Head(k.todo).ip
                 device_info == Head(k.todo).info
                 player_id == PlayerId(ip_address, device_info)
                 n == IF player_id \in DOMAIN registerCalls THEN registerCalls[player_id] ELSE 0
             IN  /\ players' = (player_id :> NewPlayer(ip_address, device_info)) @@ k.players
                 /\ registerCalls' = (player_id :> n + 1) @@ registerCalls
                 /\ registerRaised' = registerRaised
                 /\ recDev' = (player_id :> device_info.name) @@ recDev
                 /\ disc' = [disc EXCEPT ![t] = [pc |-> "register", todo |-> Tail(k.todo)]]
                 /\ UNCHANGED << loadPc, perPc, iterLog >>

\* -- _scan_network returns to discover_players of task t with what it
\*    discovered, or an exception is raised, caught and logged
ScanReturns(scanOutcomes) ==
    \E t \in Tasks :
      /\ disc[t].pc = "scan"
      /\ t = "periodic" => ~cancelReq
      /\ \E o \in scanOutcomes :
           IF o.raised
           THEN /\ EndDiscover(t, "discover_failed")
                /\ UNCHANGED << players, registerCalls, registerRaised, recDev >>
           ELSE Reconcile(t, o.discovered)
      /\ UNCHANGED << cancelReq, unloadPc, isRemoved, unregTasks, unregCalls, unloadSeen,
                      varsEnv, discPc, cycles, varsScan, varsScanHist, todo, lastOp >>

\* -- register_or_update returns to _register_player of task t, or raises and
\*    is logged: the loop goes on
RegisterDone ==
    \E t \in Tasks :
      /\ disc[t].pc = "register"
      /\ t = "periodic" => ~cancelReq
      /\ Reconcile(t, disc[t].todo)
      /\ UNCHANGED << cancelReq, unloadPc, isRemoved, unregTasks, unregCalls, unloadSeen,
                      varsEnv, discPc, cycles, varsScan, varsScanHist, todo, lastOp >>

\* -- the CancelledError reaches the periodic task at its await: no handler
\*    of discover_players or _register_player catches it ("except Exception"),
\*    "except asyncio.CancelledError: break" ends the loop
CancelDelivered ==
    /\ cancelReq
    /\ cancelReq' = FALSE
    /\ perPc' = PeriodicAfter("cancelled")
    /\ disc' = [disc EXCEPT !["periodic"] = DiscOff]
    /\ iterLog' = Append(iterLog, "cancelled")
    /\ UNCHANGED << loadPc, unloadPc, isRemoved, unregTasks, unregCalls, unloadSeen,
                    varsProvider >>

\* "if self._scan_task and not self._scan_task.done()"
ScanTaskRunning == perPc \in {"sleep", "discover"}

\* -- unload is called while or after loaded_in_mass runs: the periodic task,
\*    when there is one, is cancelled; an _unregister_player task is created
\*    for every player of _players. With no task to wait for, unload returns
\*    without being suspended.
Unload ==
    /\ unloadPc = "none"
    /\ loadPc > 1 \/ disc["load"].pc # "off"
    /\ \E is_removed \in BOOLEAN : isRemoved' = is_removed
    /\ cancelReq' = ScanTaskRunning
    /\ unregTasks' = [player_id \in DOMAIN players |-> "created"]
    /\ unloadSeen' = DOMAIN players
    /\ unloadPc' = IF DOMAIN players = {} THEN "done" ELSE "waiting"
    /\ UNCHANGED << loadPc, perPc, disc, unregCalls, iterLog, varsProvider >>

\* "if player.player_id in self._players: del self._players[player.player_id]"
Without(P, player_id) == [k \in DOMAIN P \ {player_id} |-> P[k]]

\* "await self.mass.players.unregister(player.player_id, permanent=False)"
UnregisterCall(player_id) == [player_id |-> player_id, permanent |-> FALSE]

\* -- an _unregister_player task runs up to its await of unregister
UnregisterStart ==
    /\ \E player_id \in DOMAIN unregTasks :
         /\ unregTasks[player_id] = "created"
         /\ players' = Without(players, player_id)
         /\ unregCalls' = Append(unregCalls, UnregisterCall(player_id))
         /\ unregTasks' = [unregTasks EXCEPT ![player_id] = "awaiting"]
    /\ UNCHANGED << loadPc, perPc, cancelReq, disc, unloadPc, isRemoved, unloadSeen, iterLog,
                    varsEnv, discPc, cycles, varsScan, varsScanHist, registerCalls, registerRaised, recDev,
                    todo, lastOp >>

\* -- unregister returns to the task, or raises and the task fails
UnregisterEnds ==
    /\ \E player_id \in DOMAIN unregTasks :
         /\ unregTasks[player_id] = "awaiting"
         /\ \E o \in {"returned", "failed"} :
              unregTasks' = [unregTasks EXCEPT ![player_id] = o]
    /\ UNCHANGED << loadPc, perPc, cancelReq, disc, unloadPc, isRemoved, unregCalls,
                    unloadSeen, iterLog, varsProvider >>

\* TaskManager.__aexit__: every task of the group has ended, failed or not.
TaskManagerExit(tasks) ==
    \A player_id \in DOMAIN tasks : tasks[player_id] \in {"returned", "failed"}

\* -- "async with TaskManager(self.mass) as tg" is left: unload returns
UnloadReturns ==
    /\ unloadPc = "waiting"
    /\ TaskManagerExit(unregTasks)
    /\ unloadPc' = "done"
    /\ UNCHANGED << loadPc, perPc, cancelReq, disc, isRemoved, unregTasks, unregCalls,
                    unloadSeen, iterLog, varsProvider >>

VARIABLES rangeIn, rangeOut

varsRange == << rangeIn, rangeOut >>

\* What the device answers to a command handed to _send_command, and what
\* the call came to
VARIABLES sendIn, sendOut

\* The command handed to _send_command, and the commands of the HTTP requests
\* it has issued, in order
VARIABLES sendCmd, sendLog

varsSend == << sendIn, sendOut, sendCmd, sendLog >>

NoOutcome == [kind |-> "none", val |-> None, exc |-> "none"]

\* History of the command handlers: what the command in progress (or the last
\* one) has sent and awaited, in order; whether the last command that wrote
\* the playback state was a play command (play_media, play, power on); what
\* the last _send_command of that command returned (None, or data)
VARIABLES wire, playIssued, lastReply

varsCmdHist == << wire, playIssued, lastReply >>

CmdHistOff ==
    /\ wire = << >>
    /\ playIssued = FALSE
    /\ lastReply = "none"

SendOff ==
    /\ sendIn = HttpTimeout
    /\ sendOut = NoOutcome
    /\ sendCmd = "none"
    /\ sendLog = << >>

\* ------------------------------------------------------------------------
\* The schedule controller (controllers/schedule.py, models/schedule.py)
\* ------------------------------------------------------------------------

\* _schedules, _active_schedules; the wall clock (weekday and time of day);
\* the scheduler's tick (_check_schedules): where it is in its loop, the
\* "now" it read, the schedules it has yet to visit, and as history the
\* schedules it called _start_schedule for, those whose start failed in it
\* and in the tick before it, and whether an API command ran since it began
VARIABLES schedules, active_schedules, wall, tick

\* The argument and the result of one call of _should_be_active
VARIABLES activeIn, activeOut

\* The API coroutines that are suspended at an await (trigger, stop, delete),
\* and as history the deletes that have returned; the rows of the schedules
\* table; _announcement_last_played; and as history the announcements played
\* and when
VARIABLES calls, database, announcement_last_played, playLog

varsSchedMore == << calls, database, announcement_last_played, playLog >>

varsSched == << schedules, active_schedules, wall, tick, activeIn, activeOut, varsSchedMore >>

SchedMoreOff ==
    /\ calls = {}
    /\ database = << >>
    /\ announcement_last_played = << >>
    /\ playLog = << >>

\* A time of day
Time(h, m) == [h |-> h, m |-> m]

\* now.strftime("%H:%M"), the HH:MM format of start_time and end_time: a str
\* as the sequence of its code points ("0" is 48, ":" is 58)
Hhmm(t) ==
    << 48 + (t.h \div 10), 48 + (t.h % 10), 58, 48 + (t.m \div 10), 48 + (t.m % 10) >>

\* a < b on two str: the order of the first code point that differs, a proper
\* prefix being the smaller
StrLess(a, b) ==
    \E k \in 0..Min(Len(a), Len(b)) :
        /\ \A i \in 1..k : a[i] = b[i]
        /\ \/ k = Len(a) /\ k < Len(b)
           \/ k < Len(a) /\ k < Len(b) /\ a[k + 1] < b[k + 1]

\* A faulty variant: the end of the window is part of it.
ShouldBeActiveClosed(schedule, current_time, current_day) ==
    IF current_day \notin schedule.days_of_week
    THEN FALSE
    ELSE LET start == schedule.start_time
             end == schedule.end_time
         IN  IF StrLess(end, start)
             THEN ~StrLess(current_time, start) \/ ~StrLess(end, current_time)
             ELSE ~StrLess(current_time, start) /\ ~StrLess(end, current_time)

\* ScheduleController._should_be_active
ShouldBeActive(schedule, current_time, current_day) ==
    IF current_day \notin schedule.days_of_week
    THEN FALSE
    ELSE LET start == schedule.start_time
             end == schedule.end_time
         IN  IF StrLess(end, start)
             THEN ~StrLess(current_time, start) \/ StrLess(current_time, end)
             ELSE ~StrLess(current_time, start) /\ StrLess(current_time, end)

\* models/schedule.py, Schedule: the fields the scheduler reads
Schedule(enabled, start, end, days, media_items, settings, group_players) ==
    [enabled |-> enabled, start_time |-> Hhmm(start), end_time |-> Hhmm(end),
     days_of_week |-> days, media_items |-> media_items, players |-> settings,
     group_players |-> group_players, announcements |-> << >>, state |-> "idle"]

NoSchedule == Schedule(FALSE, Time(0, 0), Time(0, 0), {}, << >>, << >>, FALSE)

NoTick == [pc |-> "idle", now |-> [d |-> 0, t |-> Time(0, 0)], todo |-> << >>,
           tried |-> {}, failed |-> {}, before |-> {}, quiet |-> FALSE, done |-> FALSE]

NoActive == [done |-> FALSE, result |-> FALSE]

\* The scheduler part of a specification that does not run the scheduler.
SchedOff ==
    /\ schedules = << >>
    /\ active_schedules = {}
    /\ wall = [d |-> 0, t |-> Time(0, 0)]
    /\ tick = NoTick
    /\ activeIn = [schedule |-> NoSchedule, t |-> Time(0, 0), d |-> 0]
    /\ activeOut = NoActive
    /\ SchedMoreOff

\* A faulty variant: a schedule that is on outside its window is left on.
VisitKindNoStop(schedule, should_be_active, is_active) ==
    IF ~schedule.enabled THEN "continue"
    ELSE IF should_be_active /\ ~is_active THEN "start"
    ELSE IF is_active THEN "announcements"
    ELSE "none"

\* _check_schedules, the body of "for schedule in self._schedules.values()":
\* which branch is taken
VisitKind(schedule, should_be_active, is_active) ==
    IF ~schedule.enabled THEN "continue"
    ELSE IF should_be_active /\ ~is_active THEN "start"
    ELSE IF ~should_be_active /\ is_active THEN "stop"
    ELSE IF is_active THEN "announcements"
    ELSE "none"

\* What a start can come to, once the schedule has players and media items:
\* play_media returns, or something in the try block raises, or (for a group
\* of several players) the first player is not known to the player controller
StartOutcomes(schedule) ==
    {"started", "raised"} \cup
        (IF schedule.group_players /\ Len(schedule.players) > 1
         THEN {"first_player_missing"} ELSE {})

\* _start_schedule: _active_schedules after it
StartSchedule(active, schedule_id, schedule, outcome) ==
    IF schedule.players = << >> THEN active
    ELSE IF schedule.media_items = << >> THEN active
    ELSE IF outcome = "started" THEN active \cup {schedule_id}
    ELSE active

\* _stop_schedule: _active_schedules after it ("finally: discard")
StopSchedule(active, schedule_id) == active \ {schedule_id}

\* A faulty variant: the schedule is marked PLAYING by every start attempt.
StartStateAlwaysPlaying(schedule, outcome) == "playing"

\* _start_schedule: schedule.state after it (PLAYING is written next to
\* "_active_schedules.add", and nowhere else)
StartState(schedule, outcome) ==
    IF schedule.players = << >> THEN schedule.state
    ELSE IF schedule.media_items = << >> THEN schedule.state
    ELSE IF outcome = "started" THEN "playing"
    ELSE schedule.state

\* A faulty variant: the stop leaves the state as it is.
StopStateKept(schedule) == schedule.state

\* _stop_schedule: schedule.state after it ("finally: ... ScheduleState.IDLE")
StopState(schedule) == "idle"

\* The start of a schedule with players and media items did not reach
\* "_active_schedules.add"
StartFailed(schedule, outcome) ==
    /\ schedule.players # << >>
    /\ schedule.media_items # << >>
    /\ outcome # "started"

\* -- _check_schedules begins: "now = datetime.now()", then the loop over
\*    the schedules in the order of the dict
TickStart ==
    /\ tick.pc = "idle"
    /\ tick' = [pc |-> "running", now |-> wall,
                todo |-> [i \in 1..Len(schedules) |-> i],
                tried |-> {}, failed |-> {}, before |-> tick.failed, quiet |-> TRUE,
                done |-> FALSE]
    /\ UNCHANGED << schedules, active_schedules, wall, activeIn, activeOut, varsSchedMore >>

\* -- one pass of the loop: the next schedule is skipped, started, stopped or
\*    checked for announcements
TickVisit ==
    /\ tick.pc = "running"
    /\ tick.todo # << >>
    /\ LET schedule_id == Head(tick.todo)
           schedule == schedules[schedule_id]
           should_be_active == ShouldBeActive(schedule, Hhmm(tick.now.t), tick.now.d)
           is_active == schedule_id \in active_schedules
           kind == VisitKind(schedule, should_be_active, is_active)
       IN  IF kind = "start"
           THEN \E outcome \in StartOutcomes(schedule) :
                   /\ active_schedules' =
                          StartSchedule(active_schedules, schedule_id, schedule, outcome)
                   /\ schedules' = [schedules EXCEPT ![schedule_id].state =
                                                         StartState(schedule, outcome)]
                   /\ tick' = [tick EXCEPT !.todo = Tail(@),
                                           !.tried = @ \cup {schedule_id},
                                           !.failed = IF StartFailed(schedule, outcome)
                                                      THEN @ \cup {schedule_id} ELSE @]
           ELSE /\ active_schedules' = IF kind = "stop"
                                       THEN StopSchedule(active_schedules, schedule_id)
                                       ELSE active_schedules
                /\ schedules' = IF kind = "stop"
                                THEN [schedules EXCEPT ![schedule_id].state = StopState(schedule)]
                                ELSE schedules
                /\ tick' = [tick EXCEPT !.todo = Tail(@)]
    /\ UNCHANGED << wall, activeIn, activeOut, varsSchedMore >>

\* -- the loop is over: _check_schedules returns
TickEnds ==
    /\ tick.pc = "running"
    /\ tick.todo = << >>
    /\ tick' = [tick EXCEPT !.pc = "idle", !.done = TRUE]
    /\ UNCHANGED << schedules, active_schedules, wall, activeIn, activeOut, varsSchedMore >>

\* -- schedule/trigger: a schedule that is not active is started, whatever
\*    its window
Trigger ==
    /\ \E schedule_id \in DOMAIN schedules :
          /\ schedule_id \notin active_schedules
          /\ \E outcome \in StartOutcomes(schedules[schedule_id]) :
                /\ active_schedules' = StartSchedule(active_schedules, schedule_id,
                                                     schedules[schedule_id], outcome)
                /\ schedules' = [schedules EXCEPT ![schedule_id].state =
                                      StartState(schedules[schedule_id], outcome)]
    /\ tick' = [tick EXCEPT !.quiet = FALSE]
    /\ UNCHANGED << wall, activeIn, activeOut, varsSchedMore >>

\* -- schedule/stop: an active schedule is stopped
Stop ==
    /\ \E schedule_id \in active_schedules :
          /\ active_schedules' = StopSchedule(active_schedules, schedule_id)
          /\ schedules' = [schedules EXCEPT ![schedule_id].state =
                                StopState(schedules[schedule_id])]
    /\ tick' = [tick EXCEPT !.quiet = FALSE]
    /\ UNCHANGED << wall, activeIn, activeOut, varsSchedMore >>

\* -- schedule/enable (update with enabled only): the flag is written, the
\*    active set is left alone
SetEnabled ==
    /\ \E schedule_id \in DOMAIN schedules, enabled \in BOOLEAN :
          /\ schedules[schedule_id].enabled # enabled
          /\ schedules' = [schedules EXCEPT ![schedule_id].enabled = enabled]
    /\ tick' = [tick EXCEPT !.quiet = FALSE]
    /\ UNCHANGED << active_schedules, wall, activeIn, activeOut, varsSchedMore >>

\* -- time passes, between two ticks or during one
ClockMoves(instants) ==
    /\ wall' \in instants \ {wall}
    /\ UNCHANGED << schedules, active_schedules, tick, activeIn, activeOut, varsSchedMore >>

\* -- one call of _should_be_active
ApplyShouldBeActive ==
    /\ ~activeOut.done
    /\ activeOut' = [done |-> TRUE,
                     result |-> ShouldBeActive(activeIn.schedule, Hhmm(activeIn.t),
                                               activeIn.d)]
    /\ UNCHANGED << schedules, active_schedules, wall, tick, activeIn, varsSchedMore >>

\* ------------------------------------------------------------------------
\* The scheduler with its awaits: a start and a stop are suspended at the
\* player commands they await, and the API coroutines run meanwhile. The
\* schedules are a dict keyed by id, in the order of their creation (an id is
\* never used twice, so the order of the ids); the schedule object a start or
\* a stop works on is the one its caller looked up.
\* ------------------------------------------------------------------------

\* The scheduler task is suspended (at an await of _check_schedules or in the
\* sleep of _scheduler_loop): only then do other coroutines run
TickSuspended == tick.pc # "loop"

InFlight == { c \in calls : c.op # "deleted" }

\* The schedule's state after a start or a stop that worked on the object of
\* schedule_id: the object is still in the dict, or it has been deleted
WithState(S, schedule_id, state) ==
    IF schedule_id \in DOMAIN S THEN [S EXCEPT ![schedule_id].state = state] ELSE S

\* -- _check_schedules begins: "now = datetime.now()", and the iterator over
\*    self._schedules.values() is made
CheckSchedulesBegins ==
    /\ tick.pc = "idle"
    /\ tick' = [pc |-> "loop", now |-> wall, last |-> 0,
                size |-> Cardinality(DOMAIN schedules), cur |-> 0, obj |-> NoSchedule,
                present |-> DOMAIN schedules, evaluated |-> {}, raised |-> FALSE,
                done |-> FALSE]
    /\ UNCHANGED << schedules, active_schedules, wall, activeIn, activeOut, varsSchedMore >>

\* next() of the dict's values iterator: "RuntimeError: dictionary changed
\* size during iteration" when the dict has another size than it had when the
\* iterator was made, "dictionary keys changed during iteration" when it has
\* yielded as many values as the dict had and there are entries left
IteratorRaises(size, yielded, rest, S) ==
    \/ Cardinality(DOMAIN S) # size
    \/ yielded = size /\ rest # {}

\* -- the for statement asks for the next schedule: the iterator raises (the
\*    exception leaves _check_schedules and is logged by _scheduler_loop), or
\*    it is exhausted and _check_schedules returns, or the schedule is
\*    skipped, left alone, or its start or stop is awaited
CheckSchedulesNext ==
    /\ tick.pc = "loop"
    /\ LET rest == { id \in DOMAIN schedules : id > tick.last }
           schedule_id == CHOOSE id \in rest : \A other \in rest : id <= other
           schedule == schedules[schedule_id]
           should_be_active == ShouldBeActive(schedule, Hhmm(tick.now.t), tick.now.d)
           is_active == schedule_id \in active_schedules
           kind == VisitKind(schedule, should_be_active, is_active)
           visited == [tick EXCEPT !.last = schedule_id, !.evaluated = @ \cup {schedule_id}]
       IN  IF IteratorRaises(tick.size, Cardinality(tick.evaluated), rest, schedules)
           THEN /\ tick' = [tick EXCEPT !.pc = "idle", !.raised = TRUE, !.done = TRUE]
                /\ UNCHANGED << schedules, active_schedules >>
           ELSE IF rest = {}
           THEN /\ tick' = [tick EXCEPT !.pc = "idle", !.done = TRUE]
                /\ UNCHANGED << schedules, active_schedules >>
           ELSE IF kind = "start" /\ schedule.players # << >> /\ schedule.media_items # << >>
           THEN /\ tick' = [visited EXCEPT !.pc = "starting", !.cur = schedule_id,
                                           !.obj = schedule]
                /\ UNCHANGED << schedules, active_schedules >>
           ELSE IF kind = "stop" /\ schedule.players # << >>
           THEN /\ tick' = [visited EXCEPT !.pc = "stopping", !.cur = schedule_id,
                                           !.obj = schedule]
                /\ UNCHANGED << schedules, active_schedules >>
           ELSE /\ tick' = visited
                /\ active_schedules' = IF kind = "stop"
                                       THEN StopSchedule(active_schedules, schedule_id)
                                       ELSE active_schedules
                /\ schedules' = IF kind = "stop"
                                THEN WithState(schedules, schedule_id, StopState(schedule))
                                ELSE schedules
    /\ UNCHANGED << wall, activeIn, activeOut, varsSchedMore >>

\* -- the _start_schedule the tick awaits is over
CheckSchedulesStartReturns ==
    /\ tick.pc = "starting"
    /\ \E outcome \in StartOutcomes(tick.obj) :
          /\ active_schedules' = StartSchedule(active_schedules, tick.cur, tick.obj, outcome)
          /\ schedules' = IF outcome = "started"
                          THEN WithState(schedules, tick.cur, StartState(tick.obj, outcome))
                          ELSE schedules
    /\ tick' = [tick EXCEPT !.pc = "loop"]
    /\ UNCHANGED << wall, activeIn, activeOut, varsSchedMore >>

\* -- the _stop_schedule the tick awaits is over
CheckSchedulesStopReturns ==
    /\ tick.pc = "stopping"
    /\ active_schedules' = StopSchedule(active_schedules, tick.cur)
    /\ schedules' = WithState(schedules, tick.cur, StopState(tick.obj))
    /\ tick' = [tick EXCEPT !.pc = "loop"]
    /\ UNCHANGED << wall, activeIn, activeOut, varsSchedMore >>

\* -- schedule/trigger is called for a schedule that is not active: it awaits
\*    _start_schedule
TriggerBegins(maxCalls) ==
    /\ TickSuspended
    /\ Cardinality(InFlight) < maxCalls
    /\ \E schedule_id \in DOMAIN schedules \ active_schedules :
          /\ schedules[schedule_id].players # << >>
          /\ schedules[schedule_id].media_items # << >>
          /\ calls' = calls \cup {[op |-> "trigger", id |-> schedule_id,
                                   obj |-> schedules[schedule_id]]}
    /\ UNCHANGED << schedules, active_schedules, wall, tick, activeIn, activeOut, database,
                    announcement_last_played, playLog >>

\* -- the _start_schedule of a trigger is over
TriggerReturns ==
    /\ TickSuspended
    /\ \E c \in calls :
          /\ c.op = "trigger"
          /\ \E outcome \in StartOutcomes(c.obj) :
                /\ active_schedules' = StartSchedule(active_schedules, c.id, c.obj, outcome)
                /\ schedules' = IF outcome = "started"
                                THEN WithState(schedules, c.id, StartState(c.obj, outcome))
                                ELSE schedules
          /\ calls' = calls \ {c}
    /\ UNCHANGED << wall, tick, activeIn, activeOut, database, announcement_last_played,
                    playLog >>

\* -- schedule/stop is called for an active schedule: it awaits _stop_schedule
StopBegins(maxCalls) ==
    /\ TickSuspended
    /\ Cardinality(InFlight) < maxCalls
    /\ \E schedule_id \in DOMAIN schedules \cap active_schedules :
          calls' = calls \cup {[op |-> "stop", id |-> schedule_id,
                                obj |-> schedules[schedule_id]]}
    /\ UNCHANGED << schedules, active_schedules, wall, tick, activeIn, activeOut, database,
                    announcement_last_played, playLog >>

\* -- the _stop_schedule of a stop, or of a delete, is over; the delete goes
\*    on to await database.delete
StopReturns ==
    /\ TickSuspended
    /\ \E c \in calls :
          /\ c.op \in {"stop", "delete_stop"}
          /\ active_schedules' = StopSchedule(active_schedules, c.id)
          /\ schedules' = WithState(schedules, c.id, StopState(c.obj))
          /\ calls' = (calls \ {c}) \cup
                         (IF c.op = "delete_stop" THEN {[c EXCEPT !.op = "delete_db"]} ELSE {})
    /\ UNCHANGED << wall, tick, activeIn, activeOut, database, announcement_last_played,
                    playLog >>

\* -- schedule/delete is called for a schedule: "if schedule_id in
\*    self._active_schedules" it awaits _stop_schedule, then database.delete
DeleteBegins(maxCalls) ==
    /\ TickSuspended
    /\ Cardinality(InFlight) < maxCalls
    /\ \E schedule_id \in DOMAIN schedules :
          /\ \A c \in calls : ~(c.id = schedule_id /\ c.op \in {"delete_stop", "delete_db"})
          /\ calls' = calls \cup
                {[op |-> IF schedule_id \in active_schedules THEN "delete_stop" ELSE "delete_db",
                  id |-> schedule_id, obj |-> schedules[schedule_id]]}
    /\ UNCHANGED << schedules, active_schedules, wall, tick, activeIn, activeOut, database,
                    announcement_last_played, playLog >>

\* -- database.delete is over: "del self._schedules[schedule_id]", and
\*    delete returns
DeleteReturns ==
    /\ TickSuspended
    /\ \E c \in calls :
          /\ c.op = "delete_db"
          /\ schedules' = [id \in DOMAIN schedules \ {c.id} |-> schedules[id]]
          /\ active_schedules' = active_schedules
          /\ database' = [id \in DOMAIN database \ {c.id} |-> database[id]]
          /\ calls' = (calls \ {c}) \cup {[c EXCEPT !.op = "deleted"]}
          /\ tick' = IF tick.pc = "idle" THEN tick
                     ELSE [tick EXCEPT !.present = @ \ {c.id}]
    /\ UNCHANGED << wall, activeIn, activeOut, announcement_last_played, playLog >>

\* -- schedule/create: the schedule is saved and put into the dict under a
\*    new id
Create(ids, configs) ==
    /\ TickSuspended
    /\ LET used == DOMAIN schedules \cup { c.id : c \in calls }
           schedule_id == 1 + Cardinality(used)
       IN  /\ used = 1..Cardinality(used)
           /\ schedule_id \in ids
           /\ \E schedule \in configs :
                 schedules' = (schedule_id :> schedule) @@ schedules
    /\ UNCHANGED << active_schedules, wall, tick, activeIn, activeOut, varsSchedMore >>

\* ------------------------------------------------------------------------
\* update and the database: the row of a schedule is written by
\* _save_schedule; an update of one schedule is not begun while another of
\* the same schedule awaits its save
\* ------------------------------------------------------------------------

\* _save_schedule: the row of a schedule (the runtime state is not saved)
Row(schedule) ==
    [enabled |-> IF schedule.enabled THEN 1 ELSE 0,
     start_time |-> schedule.start_time, end_time |-> schedule.end_time,
     days_of_week |-> schedule.days_of_week, media_items |-> schedule.media_items,
     players |-> schedule.players,
     group_players |-> IF schedule.group_players THEN 1 ELSE 0,
     announcements |-> schedule.announcements]

\* update, delete, trigger, stop: "schedule = self._schedules.get(schedule_id);
\* if not schedule: ... raise ValueError(msg)" leaves the dict as it is
UnknownIdRaises(S, schedule_id) == S

\* update: the fields that are not None are written to the schedule
Updated(schedule, enabled, end_time) ==
    [schedule EXCEPT !.enabled = IF enabled = None THEN @ ELSE enabled.val,
                     !.end_time = IF end_time = None THEN @ ELSE end_time.val]

\* -- update is called with the id of a schedule: the fields are written and
\*    _save_schedule is awaited
UpdateBegins(enableds, end_times) ==
    /\ \E schedule_id \in DOMAIN schedules, enabled \in enableds, end_time \in end_times :
          /\ \A c \in calls : ~(c.op = "update" /\ c.id = schedule_id)
          /\ schedules' = [schedules EXCEPT
                              ![schedule_id] = Updated(@, enabled, end_time)]
          /\ calls' = { c \in calls : c.id # schedule_id } \cup
                         {[op |-> "update", id |-> schedule_id, obj |-> schedules[schedule_id]]}
    /\ UNCHANGED << active_schedules, wall, tick, activeIn, activeOut, database,
                    announcement_last_played, playLog >>

\* -- the insert_or_replace of _save_schedule is over: update returns
UpdateReturns ==
    /\ \E c \in calls :
          /\ c.op = "update"
          /\ database' = [database EXCEPT ![c.id] = Row(schedules[c.id])]
          /\ calls' = (calls \ {c}) \cup {[c EXCEPT !.op = "updated"]}
    /\ UNCHANGED << schedules, active_schedules, wall, tick, activeIn, activeOut,
                    announcement_last_played, playLog >>

\* -- the insert_or_replace of _save_schedule raises: the exception leaves
\*    update
UpdateRaises ==
    /\ \E c \in calls :
          /\ c.op = "update"
          /\ calls' = (calls \ {c}) \cup {[c EXCEPT !.op = "update_failed"]}
    /\ UNCHANGED << schedules, active_schedules, wall, tick, activeIn, activeOut, database,
                    announcement_last_played, playLog >>

\* -- update, delete, trigger or stop is called with an id that is not the id
\*    of a schedule
UnknownId(ids) ==
    /\ \E schedule_id \in ids \ DOMAIN schedules,
          op \in {"update", "delete", "trigger", "stop"} :
          /\ schedules' = UnknownIdRaises(schedules, schedule_id)
          /\ calls' = { c \in calls : c.op # "raised" } \cup
                        {[op |-> "raised", id |-> schedule_id,
                          obj |-> [NoSchedule EXCEPT !.state = op]]}
    /\ UNCHANGED << active_schedules, wall, tick, activeIn, activeOut, database,
                    announcement_last_played, playLog >>

\* ------------------------------------------------------------------------
\* Announcements of an active schedule. The clock of these runs has seconds
\* (wall.s); now.timestamp() is counted from the midnight of day 0, a time
\* long after the epoch, and only differences of timestamps are looked at
\* ------------------------------------------------------------------------
Timestamp(at) == ((at.d * 24 + at.t.h) * 60 + at.t.m) * 60 + at.s

Announcement(announcement_id, time, repeat_interval) ==
    [announcement_id |-> announcement_id, time |-> Hhmm(time),
     repeat_interval |-> repeat_interval]

\* self._announcement_last_played.get(schedule_id, {}).get(announcement_id, 0)
LastPlayed(L, schedule_id, announcement_id) ==
    IF schedule_id \in DOMAIN L /\ announcement_id \in DOMAIN L[schedule_id]
    THEN L[schedule_id][announcement_id]
    ELSE 0

\* _check_announcements: should_play of one announcement; a repeat_interval
\* of None, or of 0, takes the else branch
ShouldPlay(announcement, current_time, current_timestamp, last_played) ==
    /\ announcement.time = current_time
    /\ IF announcement.repeat_interval # None /\ announcement.repeat_interval.val # 0
       THEN current_timestamp - last_played >= announcement.repeat_interval.val * 60
       ELSE current_timestamp - last_played > 60

\* The announcements of a schedule that a call of _check_announcements plays,
\* in the order of the list (the ids of the announcements of a schedule are
\* different)
PlayedBy(schedule_id, schedule, at, L) ==
    SelectSeq(schedule.announcements,
              LAMBDA a : ShouldPlay(a, Hhmm(at.t), Timestamp(at),
                                    LastPlayed(L, schedule_id, a.announcement_id)))

\* A sequence of announcements as the plays of them at one time
PlaysAt(announcements, schedule_id, at) ==
    [k \in 1..Len(announcements) |->
        [schedule_id |-> schedule_id,
         announcement_id |-> announcements[k].announcement_id,
         at |-> Timestamp(at)]]

\* -- a tick of the scheduler for schedules that are enabled, inside their
\*    windows and active: _check_announcements plays what is due and notes
\*    the timestamp of the tick
CheckAnnouncements ==
    /\ tick.pc = "idle"
    /\ \A schedule_id \in DOMAIN schedules :
          /\ schedules[schedule_id].enabled
          /\ ShouldBeActive(schedules[schedule_id], Hhmm(wall.t), wall.d)
          /\ schedule_id \in active_schedules
    /\ LET Played(schedule_id) ==
               PlayedBy(schedule_id, schedules[schedule_id], wall, announcement_last_played)
           ids(schedule_id) ==
               { Played(schedule_id)[k].announcement_id : k \in 1..Len(Played(schedule_id)) }
           RECURSIVE Plays(_)
           Plays(schedule_id) ==
               IF schedule_id \notin DOMAIN schedules THEN << >>
               ELSE PlaysAt(Played(schedule_id), schedule_id, wall) \o Plays(schedule_id + 1)
       IN  /\ announcement_last_played' =
                 [schedule_id \in DOMAIN schedules \cup DOMAIN announcement_last_played |->
                     IF schedule_id \in DOMAIN schedules /\ ids(schedule_id) # {}
                     THEN [a \in ids(schedule_id) |-> Timestamp(wall)] @@
                          (IF schedule_id \in DOMAIN announcement_last_played
                           THEN announcement_last_played[schedule_id] ELSE << >>)
                     ELSE announcement_last_played[schedule_id]]
           /\ playLog' = playLog \o Plays(1)
    /\ tick' = [tick EXCEPT !.ticked = @ \cup {60 * wall.t.h + wall.t.m}]
    /\ UNCHANGED << schedules, active_schedules, wall, activeIn, activeOut, calls, database >>

\* -- half a minute passes
HalfMinutePasses(first, maxMinutes) ==
    /\ 60 * wall.t.h + wall.t.m < 60 * first.h + first.m + maxMinutes
    /\ wall' = IF wall.s = 0 THEN [wall EXCEPT !.s = 30]
               ELSE IF wall.t.m = 59 THEN [wall EXCEPT !.t = Time(@.h + 1, 0), !.s = 0]
               ELSE [wall EXCEPT !.t = Time(@.h, @.m + 1), !.s = 0]
    /\ UNCHANGED << schedules, active_schedules, tick, activeIn, activeOut, varsSchedMore >>

vars == << varsProvider, varsPlayer, varsLife, varsRange, varsSend, varsCmdHist, varsSched >>

\* Subnets handed to _generate_ip_range: every prefix length 16..32 over a
\* few addresses (aligned and not), and an invalid string.
RangePrefixes == 16..32

RangeSeeds == { Ip(10, 0, 0, 0), Ip(10, 0, 0, 5), Ip(10, 0, 4, 6), Ip(192, 168, 1, 1) }

RangeInputs ==
    { Cidr(ip, p) : ip \in RangeSeeds, p \in RangePrefixes } \cup { InvalidSubnet }

RangeOff ==
    /\ rangeIn = NoSubnet
    /\ rangeOut = None

InitRange ==
    /\ rangeIn \in RangeInputs
    /\ rangeOut = None
    /\ ProviderOff
    /\ PlayerOff
    /\ LifeOff
    /\ SendOff
    /\ CmdHistOff
    /\ SchedOff

ApplyGenerateIpRange ==
    /\ rangeOut = None
    /\ rangeOut' = GenerateIpRange(rangeIn)
    /\ UNCHANGED << rangeIn, varsSend, varsCmdHist, varsSched, varsProvider, varsPlayer, varsLife >>

NextRange == ApplyGenerateIpRange

SpecRange == InitRange /\ [][NextRange]_vars

\* ------------------------------------------------------------------------
\* The discovery loop over a small subnet, with devices that move
\* ------------------------------------------------------------------------
MaxCycles == 2

MaxMoves == 2

\* 10.0.0.0/30: the hosts 10.0.0.1 and 10.0.0.2
SmallSubnets == { Cidr(Ip(10, 0, 0, 0), 30) }

Spots == { Ip(10, 0, 0, 1), Ip(10, 0, 0, 2) }

Placements ==
    { f \in [Devices -> Spots \cup {Offline}] :
        \A d, e \in Devices : d # e /\ f[d] # Offline => f[d] # f[e] }

\* d1 is the 1st vendor uuid, d2 the 2nd, where the device reports one
UuidChoices == { f \in [Devices -> 0..2] : f["d1"] \in {0, 1} /\ f["d2"] \in {0, 2} }

Init ==
    /\ InitProviderWith(SmallSubnets, UuidChoices, Placements, << >>)
    /\ PlayerOff
    /\ LifeOff
    /\ RangeOff
    /\ SendOff
    /\ CmdHistOff
    /\ SchedOff

Next ==
    \/ StartDiscover(MaxCycles, LocalIpOutcomes) /\ UNCHANGED << varsPlayer, varsRange, varsSend, varsCmdHist, varsSched, varsLife >>
    \/ NextSubnet /\ UNCHANGED << varsPlayer, varsRange, varsSend, varsCmdHist, varsSched, varsLife >>
    \/ DispatchBatch /\ UNCHANGED << varsPlayer, varsRange, varsSend, varsCmdHist, varsSched, varsLife >>
    \/ ResolveProbe(FailureResponses) /\ UNCHANGED << varsPlayer, varsRange, varsSend, varsCmdHist, varsSched, varsLife >>
    \/ CollectBatch /\ UNCHANGED << varsPlayer, varsRange, varsSend, varsCmdHist, varsSched, varsLife >>
    \/ ReconcileOne /\ UNCHANGED << varsPlayer, varsRange, varsSend, varsCmdHist, varsSched, varsLife >>
    \/ RegisterReturns /\ UNCHANGED << varsPlayer, varsRange, varsSend, varsCmdHist, varsSched, varsLife >>
    \/ RegisterRaises /\ UNCHANGED << varsPlayer, varsRange, varsSend, varsCmdHist, varsSched, varsLife >>
    \/ DiscoverReturns /\ UNCHANGED << varsPlayer, varsRange, varsSend, varsCmdHist, varsSched, varsLife >>
    \/ DeviceMoves(Spots, MaxMoves) /\ UNCHANGED << varsPlayer, varsRange, varsSend, varsCmdHist, varsSched, varsLife >>

Spec == Init /\ [][Next]_vars

\* ------------------------------------------------------------------------
\* One scan of subnets of more than one batch
\* ------------------------------------------------------------------------
\* 10.0.0.0/26 (62 hosts), or no configured subnet where the local address
\* cannot be told: the two fallback /24 (2 x 254 hosts)
ScanSubnets == { Cidr(Ip(10, 0, 0, 0), 26), NoSubnet }

ScanLocalOutcomes == { local \in LocalIpOutcomes : ~local.ok }

\* d1 in a first batch, d2 in a later batch of each of these subnets
ScanPlacements ==
    { [d \in Devices |-> IF d = "d1" THEN Ip(192, 168, 1, 7) ELSE Ip(192, 168, 0, 60)] }

\* The hosts of these subnets: a device answers or times out, any other
\* address times out.
ScanFailures == { Timeout }

InitScan ==
    /\ InitProviderWith(ScanSubnets, {[d \in Devices |-> IF d = "d1" THEN 1 ELSE 0]},
                        ScanPlacements, << >>)
    /\ PlayerOff
    /\ LifeOff
    /\ RangeOff
    /\ SendOff
    /\ CmdHistOff
    /\ SchedOff

NextScan ==
    \/ StartDiscover(1, ScanLocalOutcomes) /\ UNCHANGED << varsPlayer, varsRange, varsSend, varsCmdHist, varsSched, varsLife >>
    \/ NextSubnet /\ UNCHANGED << varsPlayer, varsRange, varsSend, varsCmdHist, varsSched, varsLife >>
    \/ DispatchBatch /\ UNCHANGED << varsPlayer, varsRange, varsSend, varsCmdHist, varsSched, varsLife >>
    \/ ResolveProbe(ScanFailures) /\ UNCHANGED << varsPlayer, varsRange, varsSend, varsCmdHist, varsSched, varsLife >>
    \/ CollectBatch /\ UNCHANGED << varsPlayer, varsRange, varsSend, varsCmdHist, varsSched, varsLife >>

SpecScan == InitScan /\ [][NextScan]_vars

\* ------------------------------------------------------------------------
\* One registered player: poll ticks and commands over time
\* ------------------------------------------------------------------------
\* The clock at the start (time.time() is far from 0, the initial
\* _play_start_time), and how long the clock runs after it
Epoch == 20

MaxElapsed == 16

\* How many times play_media is called
MaxPlays == 1

PlayerCommands ==
    { [op |-> "play_media", arg |-> "uri1", level |-> 0],
      [op |-> "play", arg |-> "none", level |-> 0],
      [op |-> "pause", arg |-> "none", level |-> 0],
      [op |-> "stop", arg |-> "none", level |-> 0] }

\* What the device answers to a command: failures, a status object (with a
\* "mute" that int() does not read, in one of them), an empty object.
StatusObjects ==
    { JsonObject(st, IntVal(30), IntVal(0)) : st \in {"play", "pause", "stop"} }
        \cup { JsonObject("stop", IntVal(30), OtherStr) }

PlayerResponses ==
    { HttpTimeout, HttpConnError, HttpNon200, HttpUndecodable, HttpJson(EmptyObject) }
        \cup { HttpJson(j) : j \in StatusObjects }

\* The record of device d1 as discover_players registers it.
RegisteredPlayer ==
    Pid :> NewPlayer(Ip(10, 0, 0, 1), DeviceInfoOf(Ip(10, 0, 0, 1), Ok200Device("d1", 1)))

InitPlayer ==
    /\ InitProviderWith({NoSubnet}, {[d \in Devices |-> IF d = "d1" THEN 1 ELSE 0]},
                        {[d \in Devices |-> IF d = "d1" THEN Ip(10, 0, 0, 1) ELSE Offline]},
                        RegisteredPlayer)
    /\ now = Epoch
    /\ pollPc = "idle"
    /\ cmd = NoCmd
    /\ foreign = "none"
    /\ lastPoll = NoPoll
    /\ suppressed = FALSE
    /\ plays = 0
    /\ LifeOff
    /\ RangeOff
    /\ SendOff
    /\ CmdHistOff
    /\ SchedOff

NextPlayer ==
    \/ Tick(Epoch + MaxElapsed) /\ UNCHANGED << varsRange, varsSend, varsCmdHist, varsSched, varsLife >>
    \/ PollStart /\ UNCHANGED << varsRange, varsSend, varsCmdHist, varsSched, varsLife >>
    \/ PollDeviceStatus(PlayerResponses) /\ UNCHANGED << varsRange, varsSend, varsCmdHist, varsSched, varsLife >>
    \/ PollPlayerStatus(PlayerResponses) /\ UNCHANGED << varsRange, varsSend, varsCmdHist, varsSched, varsLife >>
    \/ CommandStart(PlayerCommands, MaxPlays) /\ UNCHANGED << varsRange, varsSend, varsCmdHist, varsSched, varsLife >>
    \/ CommandReturns(PlayerResponses) /\ UNCHANGED << varsRange, varsSend, varsCmdHist, varsSched, varsLife >>
    \/ SleepReturns /\ UNCHANGED << varsRange, varsSend, varsCmdHist, varsSched, varsLife >>

SpecPlayer == InitPlayer /\ [][NextPlayer]_vars

\* ------------------------------------------------------------------------
\* The life of the provider: load, periodic discovery, unload
\* ------------------------------------------------------------------------
\* How many iterations of the periodic loop are followed
MaxIterations == 2

\* Where each device answers in these scans
HomeOf(d) == IF d = "d1" THEN Ip(10, 0, 0, 1) ELSE Ip(10, 0, 0, 2)

Found(d) ==
    [ip |-> HomeOf(d),
     info |-> DeviceInfoOf(HomeOf(d), Ok200Device(d, IF d = "d1" THEN 1 ELSE 2))]

\* What a scan comes to: any of the devices answer, or an exception is raised
\* inside discover_players.
LifeScanOutcomes ==
    { [raised |-> FALSE, discovered |-> s] :
        s \in { << >>, << Found("d1") >>, << Found("d2") >>, << Found("d1"), Found("d2") >> } }
        \cup { [raised |-> TRUE, discovered |-> << >>] }

SleepOutcomes == {"ok", "sleep_raised"}

InitLife ==
    /\ InitProviderWith({ Cidr(Ip(10, 0, 0, 0), 30) }, {[d \in Devices |-> IF d = "d1" THEN 1 ELSE 2]},
                        {[d \in Devices |-> HomeOf(d)]}, << >>)
    /\ LifeOff
    /\ PlayerOff
    /\ RangeOff
    /\ SendOff
    /\ CmdHistOff
    /\ SchedOff

NextLife ==
    \/ LoadStep /\ UNCHANGED << varsPlayer, varsRange, varsSend, varsCmdHist, varsSched >>
    \/ SleepOver(MaxIterations, SleepOutcomes) /\ UNCHANGED << varsPlayer, varsRange, varsSend, varsCmdHist, varsSched >>
    \/ ScanReturns(LifeScanOutcomes) /\ UNCHANGED << varsPlayer, varsRange, varsSend, varsCmdHist, varsSched >>
    \/ RegisterDone /\ UNCHANGED << varsPlayer, varsRange, varsSend, varsCmdHist, varsSched >>
    \/ CancelDelivered /\ UNCHANGED << varsPlayer, varsRange, varsSend, varsCmdHist, varsSched >>
    \/ Unload /\ UNCHANGED << varsPlayer, varsRange, varsSend, varsCmdHist, varsSched >>
    \/ UnregisterStart /\ UNCHANGED << varsPlayer, varsRange, varsSend, varsCmdHist, varsSched >>
    \/ UnregisterEnds /\ UNCHANGED << varsPlayer, varsRange, varsSend, varsCmdHist, varsSched >>
    \/ UnloadReturns /\ UNCHANGED << varsPlayer, varsRange, varsSend, varsCmdHist, varsSched >>

SpecLife == InitLife /\ [][NextLife]_vars

\* The event loop runs every task that is ready: a sleep ends, an awaited
\* scan or registration ends (each request has its timeout), a cancellation
\* is delivered.
FairLife ==
    /\ WF_vars(SleepOver(MaxIterations, SleepOutcomes) /\ UNCHANGED << varsPlayer, varsRange, varsSend, varsCmdHist, varsSched >>)
    /\ WF_vars(ScanReturns(LifeScanOutcomes) /\ UNCHANGED << varsPlayer, varsRange, varsSend, varsCmdHist, varsSched >>)
    /\ WF_vars(RegisterDone /\ UNCHANGED << varsPlayer, varsRange, varsSend, varsCmdHist, varsSched >>)
    /\ WF_vars(CancelDelivered /\ UNCHANGED << varsPlayer, varsRange, varsSend, varsCmdHist, varsSched >>)

SpecLifeFair == SpecLife /\ FairLife

\* ------------------------------------------------------------------------
\* One call of _send_command, over what the device can answer
\* ------------------------------------------------------------------------
SendJson ==
    { EmptyObject, JsonList, JsonFalsy }
        \cup { JsonObject(st, vol, mute) :
                 st \in {"play", "pause", "stop", "missing"},
                 vol \in { IntVal(30), NumStr(30), OtherStr, Missing },
                 mute \in { IntVal(0), IntVal(1), OtherStr, Missing } }

SendInputs ==
    { HttpTimeout, HttpConnError, HttpNon200, HttpUndecodable }
        \cup { HttpText(text) : text \in {"OK", "", "Failed"} }
        \cup { HttpJson(j) : j \in SendJson }

\* Commands of the poll and of the command handlers
SendCommands == { "getStatusEx", "getPlayerStatus", "setPlayerCmd:pause" }

\* The player, available or not when the command is sent
SendRegistries ==
    { RegisteredPlayer, [RegisteredPlayer EXCEPT ![Pid].available = FALSE] }

InitSend ==
    /\ \E registry \in SendRegistries :
          InitProviderWith({NoSubnet}, {[d \in Devices |-> IF d = "d1" THEN 1 ELSE 0]},
                           {[d \in Devices |-> IF d = "d1" THEN Ip(10, 0, 0, 1) ELSE Offline]},
                           registry)
    /\ sendIn \in SendInputs
    /\ sendOut = NoOutcome
    /\ sendCmd \in SendCommands
    /\ sendLog = << >>
    /\ CmdHistOff
    /\ PlayerOff
    /\ LifeOff
    /\ RangeOff
    /\ SchedOff

ApplySendCommand ==
    /\ sendOut = NoOutcome
    /\ sendOut' = SendCommand(sendIn)
    /\ sendLog' = sendLog \o SendRequests(sendCmd, sendIn)
    /\ players' = [players EXCEPT ![Pid] = SendCommandRecord(@, sendIn)]
    /\ UNCHANGED << sendIn, sendCmd, varsEnv, discPc, cycles, varsScan, varsScanHist, registerCalls, registerRaised,
                    recDev, todo, lastOp, varsPlayer, varsLife, varsRange, varsCmdHist, varsSched >>

NextSend == ApplySendCommand

SpecSend == InitSend /\ [][NextSend]_vars

\* ------------------------------------------------------------------------
\* One discovery under each kind of configured subnet
\* ------------------------------------------------------------------------
\* A string that is no subnet, no value, the default value, a /30 and an
\* address of that /30 with its host bits set
ConfigSubnets ==
    { InvalidSubnet, NoSubnet, DEFAULT_SUBNET, Cidr(Ip(10, 0, 0, 0), 30),
      Cidr(Ip(10, 0, 0, 2), 30) }

\* Both devices are in the /30; the registry is empty or holds d1
ConfigRegistries == { << >>, RegisteredPlayer }

InitConfig ==
    /\ \E registry \in ConfigRegistries :
          InitProviderWith(ConfigSubnets, {[d \in Devices |-> IF d = "d1" THEN 1 ELSE 2]},
                           {[d \in Devices |-> IF d = "d1" THEN Ip(10, 0, 0, 1)
                                                              ELSE Ip(10, 0, 0, 2)]},
                           registry)
    /\ PlayerOff
    /\ LifeOff
    /\ RangeOff
    /\ SendOff
    /\ CmdHistOff
    /\ SchedOff

NextConfig ==
    \/ StartDiscover(1, LocalIpOutcomes) /\ UNCHANGED << varsPlayer, varsRange, varsSend, varsCmdHist, varsSched, varsLife >>
    \/ NextSubnet /\ UNCHANGED << varsPlayer, varsRange, varsSend, varsCmdHist, varsSched, varsLife >>
    \/ DispatchBatch /\ UNCHANGED << varsPlayer, varsRange, varsSend, varsCmdHist, varsSched, varsLife >>
    \/ ResolveProbe(ScanFailures) /\ UNCHANGED << varsPlayer, varsRange, varsSend, varsCmdHist, varsSched, varsLife >>
    \/ CollectBatch /\ UNCHANGED << varsPlayer, varsRange, varsSend, varsCmdHist, varsSched, varsLife >>
    \/ ReconcileOne /\ UNCHANGED << varsPlayer, varsRange, varsSend, varsCmdHist, varsSched, varsLife >>
    \/ RegisterReturns /\ UNCHANGED << varsPlayer, varsRange, varsSend, varsCmdHist, varsSched, varsLife >>
    \/ DiscoverReturns /\ UNCHANGED << varsPlayer, varsRange, varsSend, varsCmdHist, varsSched, varsLife >>

SpecConfig == InitConfig /\ [][NextConfig]_vars

\* ------------------------------------------------------------------------
\* The command handlers and the poll of one player, at one reading of the clock
\* ------------------------------------------------------------------------
CmdCommands ==
    { [op |-> "play_media", arg |-> uri, level |-> 0] :
        uri \in { "http://mass/flow/1.flac", "http://mass/flow/1.flac?sid=7" } }
      \cup { [op |-> op, arg |-> "none", level |-> 0] : op \in {"play", "pause", "stop"} }
      \cup { [op |-> "power", arg |-> arg, level |-> 0] : arg \in {"on", "off"} }
      \cup { [op |-> "volume_set", arg |-> "none", level |-> 37],
             [op |-> "volume_mute", arg |-> "on", level |-> 0] }

\* What the device answers: nothing, the text "OK", a status object
CmdResponses ==
    { HttpTimeout, HttpText("OK") }
        \cup { HttpJson(JsonObject(st, IntVal(30), IntVal(0))) : st \in {"play", "stop"} }

InitCmd ==
    /\ InitProviderWith({NoSubnet}, {[d \in Devices |-> IF d = "d1" THEN 1 ELSE 0]},
                        {[d \in Devices |-> IF d = "d1" THEN Ip(10, 0, 0, 1) ELSE Offline]},
                        RegisteredPlayer)
    /\ now = Epoch
    /\ pollPc = "idle"
    /\ cmd = NoCmd
    /\ foreign = "none"
    /\ lastPoll = NoPoll
    /\ suppressed = FALSE
    /\ plays = 0
    /\ wire = << >>
    /\ playIssued = FALSE
    /\ lastReply = "none"
    /\ LifeOff
    /\ RangeOff
    /\ SendOff
    /\ SchedOff

\* Whether a command writes PLAYING when it ends (play_media, play, power on)
\* or another playback state (pause, stop, power off)
IsPlayCommand(c) == c.op \in {"play_media", "play"} \/ (c.op = "power" /\ c.arg = "on")

WritesOtherState(c) == c.op \in {"pause", "stop"} \/ (c.op = "power" /\ c.arg = "off")

\* -- a command handler is called and sends its first command
CmdStart ==
    /\ CommandStart(CmdCommands, MaxPlays)
    /\ wire' = << Request(cmd'.op, cmd'.arg, cmd'.level, 1) >>
    /\ UNCHANGED << playIssued, lastReply >>

\* -- the command sent has returned: the handler goes on to its next step, or
\*    makes its writes and returns
CmdReturns ==
    /\ \E resp \in CmdResponses :
          /\ CommandReturns({resp})
          /\ lastReply' = IF SendCommand(resp) = Returned(None) THEN "None" ELSE "data"
    /\ wire' = IF cmd' = NoCmd THEN wire
               ELSE Append(wire, Request(cmd.op, cmd.arg, cmd.level, cmd'.step))
    /\ playIssued' = IF cmd' # NoCmd THEN playIssued
                     ELSE IF IsPlayCommand(cmd) THEN TRUE
                     ELSE IF WritesOtherState(cmd) THEN FALSE
                     ELSE playIssued

\* -- a sleep of play_media is over: it sends its next command
CmdSleepReturns ==
    /\ SleepReturns
    /\ wire' = Append(wire, Request(cmd.op, cmd.arg, cmd.level, cmd'.step))
    /\ UNCHANGED << playIssued, lastReply >>

NextCmd ==
    \/ PollStart /\ UNCHANGED << varsRange, varsSend, varsCmdHist, varsSched, varsLife >>
    \/ PollDeviceStatus(CmdResponses) /\ UNCHANGED << varsRange, varsSend, varsCmdHist, varsSched, varsLife >>
    \/ PollPlayerStatus(CmdResponses) /\ UNCHANGED << varsRange, varsSend, varsCmdHist, varsSched, varsLife >>
    \/ CmdStart /\ UNCHANGED << varsRange, varsSend, varsSched, varsLife >>
    \/ CmdReturns /\ UNCHANGED << varsRange, varsSend, varsSched, varsLife >>
    \/ CmdSleepReturns /\ UNCHANGED << varsRange, varsSend, varsSched, varsLife >>

SpecCmd == InitCmd /\ [][NextCmd]_vars

\* ------------------------------------------------------------------------
\* The volume of one player, under polls and volume_set
\* ------------------------------------------------------------------------
\* volume_set with levels of the range of the player controller
VolumeCommands == { [op |-> "volume_set", arg |-> "none", level |-> v] : v \in {0, 37, 100} }

\* The "vol" of a status: in range, out of range, a string int() reads, a
\* string it does not read, a float, missing
VolumeValues ==
    { IntVal(0), IntVal(100), IntVal(150), IntVal(-1), NumStr(40), NumStr(101), OtherStr,
      OtherType, Missing }

VolumeResponses ==
    { HttpTimeout } \cup { HttpJson(JsonObject("stop", vol, IntVal(0))) : vol \in VolumeValues }

InitVolume ==
    /\ InitProviderWith({NoSubnet}, {[d \in Devices |-> IF d = "d1" THEN 1 ELSE 0]},
                        {[d \in Devices |-> IF d = "d1" THEN Ip(10, 0, 0, 1) ELSE Offline]},
                        RegisteredPlayer)
    /\ now = Epoch
    /\ pollPc = "idle"
    /\ cmd = NoCmd
    /\ foreign = "none"
    /\ lastPoll = NoPoll
    /\ suppressed = FALSE
    /\ plays = 0
    /\ LifeOff
    /\ RangeOff
    /\ SendOff
    /\ CmdHistOff
    /\ SchedOff

NextVolume ==
    \/ PollStart /\ UNCHANGED << varsRange, varsSend, varsCmdHist, varsSched, varsLife >>
    \/ PollDeviceStatus(VolumeResponses) /\ UNCHANGED << varsRange, varsSend, varsCmdHist, varsSched, varsLife >>
    \/ PollPlayerStatus(VolumeResponses) /\ UNCHANGED << varsRange, varsSend, varsCmdHist, varsSched, varsLife >>
    \/ CommandStart(VolumeCommands, MaxPlays) /\ UNCHANGED << varsRange, varsSend, varsCmdHist, varsSched, varsLife >>
    \/ CommandReturns(VolumeResponses) /\ UNCHANGED << varsRange, varsSend, varsCmdHist, varsSched, varsLife >>

SpecVolume == InitVolume /\ [][NextVolume]_vars

\* ------------------------------------------------------------------------
\* _should_be_active on its own: windows by day, overnight and empty, times
\* at and next to their ends, the week's first, second and last day
\* ------------------------------------------------------------------------
ActiveTimes ==
    { Time(0, 0), Time(5, 59), Time(6, 0), Time(9, 0), Time(9, 59), Time(10, 0),
      Time(19, 59), Time(22, 0), Time(23, 59) }

ActiveDaySets == { {}, {0}, {0, 1}, {6}, {0, 6} }

ActiveDays == { 0, 1, 6 }

InitActive ==
    /\ \E start \in ActiveTimes, end \in ActiveTimes, days \in ActiveDaySets :
          \E t \in ActiveTimes, d \in ActiveDays :
             activeIn = [schedule |-> Schedule(TRUE, start, end, days, << "m1" >>,
                                               << "p1" >>, FALSE),
                         t |-> t, d |-> d]
    /\ activeOut = NoActive
    /\ SchedMoreOff
    /\ schedules = << >>
    /\ active_schedules = {}
    /\ wall = [d |-> 0, t |-> Time(0, 0)]
    /\ tick = NoTick
    /\ ProviderOff
    /\ PlayerOff
    /\ LifeOff
    /\ RangeOff
    /\ SendOff
    /\ CmdHistOff

NextActive ==
    ApplyShouldBeActive
        /\ UNCHANGED << varsProvider, varsPlayer, varsLife, varsRange, varsSend, varsCmdHist >>

SpecActive == InitActive /\ [][NextActive]_vars

\* ------------------------------------------------------------------------
\* The scheduler: two schedules, the ticks of the scheduler loop, the API
\* commands that start, stop, enable and disable a schedule, and the clock
\* ------------------------------------------------------------------------
SchedInstants ==
    { [d |-> d, t |-> t] : d \in { 0, 1 },
                           t \in { Time(5, 0), Time(9, 0), Time(17, 0), Time(23, 0) } }

\* A schedule by day, one overnight, one with an empty window; with a player
\* and a media item, without players, without media items, or with a group
\* of two players
FirstSchedules ==
    { Schedule(TRUE, w[1], w[2], w[3], s[1], s[2], s[3]) :
        w \in { << Time(9, 0), Time(17, 0), {0} >>,
                << Time(22, 0), Time(6, 0), {0, 1} >>,
                << Time(10, 0), Time(10, 0), {0} >> },
        s \in { << << "m1" >>, << "p1" >>, FALSE >>,
                << << "m1" >>, << >>, FALSE >>,
                << << >>, << "p1" >>, FALSE >>,
                << << "m1" >>, << "p1", "p2" >>, TRUE >> } }

SecondSchedules ==
    { Schedule(TRUE, Time(22, 0), Time(6, 0), {1}, << "m2" >>, << "p2" >>, FALSE),
      Schedule(FALSE, Time(9, 0), Time(17, 0), {0, 1}, << "m2" >>, << "p2" >>, FALSE) }

InitSched ==
    /\ \E first \in FirstSchedules, second \in SecondSchedules :
          schedules = << first, second >>
    /\ active_schedules = {}
    /\ wall \in SchedInstants
    /\ tick = NoTick
    /\ activeIn = [schedule |-> NoSchedule, t |-> Time(0, 0), d |-> 0]
    /\ activeOut = NoActive
    /\ SchedMoreOff
    /\ ProviderOff
    /\ PlayerOff
    /\ LifeOff
    /\ RangeOff
    /\ SendOff
    /\ CmdHistOff

NextSched ==
    \/ TickStart /\ UNCHANGED << varsProvider, varsPlayer, varsLife, varsRange, varsSend, varsCmdHist >>
    \/ TickVisit /\ UNCHANGED << varsProvider, varsPlayer, varsLife, varsRange, varsSend, varsCmdHist >>
    \/ TickEnds /\ UNCHANGED << varsProvider, varsPlayer, varsLife, varsRange, varsSend, varsCmdHist >>
    \/ Trigger /\ UNCHANGED << varsProvider, varsPlayer, varsLife, varsRange, varsSend, varsCmdHist >>
    \/ Stop /\ UNCHANGED << varsProvider, varsPlayer, varsLife, varsRange, varsSend, varsCmdHist >>
    \/ SetEnabled /\ UNCHANGED << varsProvider, varsPlayer, varsLife, varsRange, varsSend, varsCmdHist >>
    \/ ClockMoves(SchedInstants) /\ UNCHANGED << varsProvider, varsPlayer, varsLife, varsRange, varsSend, varsCmdHist >>

SpecSched == InitSched /\ [][NextSched]_vars

\* ------------------------------------------------------------------------
\* The scheduler with its awaits, at 09:00 on a Monday: two schedules, each
\* inside or outside its window, a third that may be created; triggers,
\* stops and deletes beside the ticks
\* ------------------------------------------------------------------------
MaxCalls == 1

RaceIds == 1..3

RaceSchedules ==
    { Schedule(TRUE, Time(9, 0), Time(17, 0), {0}, << "m1" >>, << "p1" >>, FALSE),
      Schedule(TRUE, Time(22, 0), Time(6, 0), {0}, << "m1" >>, << "p1" >>, FALSE) }

InitRace ==
    /\ \E first \in RaceSchedules, second \in RaceSchedules :
          schedules = << first, second >>
    /\ active_schedules = {}
    /\ wall = [d |-> 0, t |-> Time(9, 0)]
    /\ tick = NoTick
    /\ activeIn = [schedule |-> NoSchedule, t |-> Time(0, 0), d |-> 0]
    /\ activeOut = NoActive
    /\ SchedMoreOff
    /\ ProviderOff
    /\ PlayerOff
    /\ LifeOff
    /\ RangeOff
    /\ SendOff
    /\ CmdHistOff

NextRace ==
    \/ CheckSchedulesBegins /\ UNCHANGED << varsProvider, varsPlayer, varsLife, varsRange, varsSend, varsCmdHist >>
    \/ CheckSchedulesNext /\ UNCHANGED << varsProvider, varsPlayer, varsLife, varsRange, varsSend, varsCmdHist >>
    \/ CheckSchedulesStartReturns /\ UNCHANGED << varsProvider, varsPlayer, varsLife, varsRange, varsSend, varsCmdHist >>
    \/ CheckSchedulesStopReturns /\ UNCHANGED << varsProvider, varsPlayer, varsLife, varsRange, varsSend, varsCmdHist >>
    \/ TriggerBegins(MaxCalls) /\ UNCHANGED << varsProvider, varsPlayer, varsLife, varsRange, varsSend, varsCmdHist >>
    \/ TriggerReturns /\ UNCHANGED << varsProvider, varsPlayer, varsLife, varsRange, varsSend, varsCmdHist >>
    \/ StopBegins(MaxCalls) /\ UNCHANGED << varsProvider, varsPlayer, varsLife, varsRange, varsSend, varsCmdHist >>
    \/ StopReturns /\ UNCHANGED << varsProvider, varsPlayer, varsLife, varsRange, varsSend, varsCmdHist >>
    \/ DeleteBegins(MaxCalls) /\ UNCHANGED << varsProvider, varsPlayer, varsLife, varsRange, varsSend, varsCmdHist >>
    \/ DeleteReturns /\ UNCHANGED << varsProvider, varsPlayer, varsLife, varsRange, varsSend, varsCmdHist >>
    \/ Create(RaceIds, {Schedule(TRUE, Time(9, 0), Time(17, 0), {0}, << "m1" >>, << "p1" >>, FALSE)}) /\ UNCHANGED << varsProvider, varsPlayer, varsLife, varsRange, varsSend, varsCmdHist >>

SpecRace == InitRace /\ [][NextRace]_vars

\* ------------------------------------------------------------------------
\* update: two schedules as they were loaded from the database, updates of
\* the enabled flag and of the end of the window, saves that return or raise
\* ------------------------------------------------------------------------
UpdateEnableds == {None, [kind |-> "bool", val |-> TRUE], [kind |-> "bool", val |-> FALSE]}

UpdateEndTimes == {None, [kind |-> "str", val |-> Hhmm(Time(6, 0))]}

InitUpdate ==
    /\ \E first \in RaceSchedules, second \in SecondSchedules :
          /\ schedules = << first, second >>
          /\ database = << Row(first), Row(second) >>
    /\ active_schedules = {}
    /\ wall = [d |-> 0, t |-> Time(9, 0)]
    /\ tick = NoTick
    /\ activeIn = [schedule |-> NoSchedule, t |-> Time(0, 0), d |-> 0]
    /\ activeOut = NoActive
    /\ calls = {}
    /\ announcement_last_played = << >>
    /\ playLog = << >>
    /\ ProviderOff
    /\ PlayerOff
    /\ LifeOff
    /\ RangeOff
    /\ SendOff
    /\ CmdHistOff

NextUpdate ==
    \/ UpdateBegins(UpdateEnableds, UpdateEndTimes) /\ UNCHANGED << varsProvider, varsPlayer, varsLife, varsRange, varsSend, varsCmdHist >>
    \/ UpdateReturns /\ UNCHANGED << varsProvider, varsPlayer, varsLife, varsRange, varsSend, varsCmdHist >>
    \/ UpdateRaises /\ UNCHANGED << varsProvider, varsPlayer, varsLife, varsRange, varsSend, varsCmdHist >>
    \/ UnknownId(RaceIds) /\ UNCHANGED << varsProvider, varsPlayer, varsLife, varsRange, varsSend, varsCmdHist >>

SpecUpdate == InitUpdate /\ [][NextUpdate]_vars

\* ------------------------------------------------------------------------
\* Announcements: one schedule, active from 09:00 on, with a repeating and a
\* one-time announcement; ticks at any half minute of the next MaxMinutes
\* minutes
\* ------------------------------------------------------------------------
MaxMinutes == 4

AnnFirst == Time(9, 0)

Minutes(n) == [kind |-> "int", val |-> n]

AnnouncementLists ==
    { << Announcement("a1", Time(9, 1), r), Announcement("a2", t, None) >> :
        r \in {Minutes(1), Minutes(2)}, t \in {Time(9, 1), Time(9, 2)} }

InitAnn ==
    /\ \E announcements \in AnnouncementLists :
          schedules = << [Schedule(TRUE, Time(9, 0), Time(17, 0), {0}, << "m1" >>, << "p1" >>,
                                   FALSE)
                             EXCEPT !.announcements = announcements, !.state = "playing"] >>
    /\ active_schedules = {1}
    /\ announcement_last_played = << << >> >>
    /\ wall = [d |-> 0, t |-> AnnFirst, s |-> 0]
    /\ tick = [pc |-> "idle", ticked |-> {}, done |-> FALSE]
    /\ playLog = << >>
    /\ calls = {}
    /\ database = << >>
    /\ activeIn = [schedule |-> NoSchedule, t |-> Time(0, 0), d |-> 0]
    /\ activeOut = NoActive
    /\ ProviderOff
    /\ PlayerOff
    /\ LifeOff
    /\ RangeOff
    /\ SendOff
    /\ CmdHistOff

NextAnn ==
    \/ CheckAnnouncements /\ UNCHANGED << varsProvider, varsPlayer, varsLife, varsRange, varsSend, varsCmdHist >>
    \/ HalfMinutePasses(AnnFirst, MaxMinutes) /\ UNCHANGED << varsProvider, varsPlayer, varsLife, varsRange, varsSend, varsCmdHist >>

SpecAnn == InitAnn /\ [][NextAnn]_vars

\* ========================================================================
\* The claims
\* ========================================================================
RecordsOf(d) == { player_id \in DOMAIN players : recDev[player_id] = d }

\* C1: every physical device has at most one record in _players,
\* and the key of every record is derived from a UUID, never from an address.
C1_OneRecordPerDeviceKeyedByUuid ==
    /\ \A d \in Devices : Cardinality(RecordsOf(d)) <= 1
    /\ \A player_id \in DOMAIN players : player_id.src = "uuid"

\* What the registry does guarantee: a device that reports a uuid has at most
\* one record, whose key is that uuid and whose address is one the device
\* answered at; the record of a device that reports no uuid is keyed by an
\* address at which the device answered.
C1_UuidDevicesHaveOneRecord ==
    /\ \A d \in Devices : uuidOf[d] > 0 => Cardinality(RecordsOf(d)) <= 1
    /\ \A player_id \in DOMAIN players :
         LET d == recDev[player_id]
         IN  /\ players[player_id].ip_address \in answeredAt[d]
             /\ IF uuidOf[d] > 0
                THEN player_id = UuidKey(uuidOf[d])
                ELSE player_id.src = "addr"
                     /\ player_id.v \in answeredAt[d]

\* A device that reports a uuid has answered at two addresses and has one record.
C1_Witness ==
    \E d \in Devices :
        /\ uuidOf[d] > 0
        /\ Cardinality(answeredAt[d]) >= 2
        /\ Cardinality(RecordsOf(d)) = 1

\* C2: when the reconciliation meets a discovered device whose uuid is the key
\* of an existing record with another address, that record's ip_address
\* becomes the new address, no other record changes, the key set of _players
\* is unchanged and register_or_update is not called.
C2_AddressUpdatedInPlace ==
    [][ (/\ discPc = "reconcile"
         /\ todo # << >>
         /\ Head(todo).info.uuid \in DOMAIN players
         /\ players[Head(todo).info.uuid].ip_address # Head(todo).ip)
        => (/\ players'[Head(todo).info.uuid].ip_address = Head(todo).ip
            /\ DOMAIN players' = DOMAIN players
            /\ \A q \in DOMAIN players \ {Head(todo).info.uuid} : players'[q] = players[q]
            /\ registerCalls' = registerCalls
            /\ discPc' = "reconcile") ]_vars

\* The reconciliation has just moved a record to the device's new address.
C2_Witness ==
    /\ lastOp.op = "ip_update"
    /\ lastOp.player_id.src = "uuid"
    /\ lastOp.old # lastOp.new
    /\ players[lastOp.player_id].ip_address = lastOp.new
    /\ Cardinality(DOMAIN players) = 1

\* C3: a poll tick whose status payload reports a status other than "play" and
\* "pause", taken while the record is PLAYING after a play_media that completed
\* at t0, leaves the state PLAYING when less than 15 s have passed since t0,
\* and sets it to IDLE when 15 s or more have passed.
C3_GraceThenIdle ==
    (/\ lastPoll.seen
     /\ lastPoll.branch \in {"status", "status_error"}
     /\ lastPoll.status \in {"stop", "missing"}
     /\ lastPoll.played
     /\ lastPoll.prev = "playing")
        => lastPoll.after = (IF lastPoll.elapsed < 15 THEN "playing" ELSE "idle")

\* A tick reporting "stop" 15 s or more after play_media has set a PLAYING
\* record to IDLE, after an earlier tick was held at PLAYING by the grace period.
C3_Witness ==
    /\ lastPoll.seen
    /\ lastPoll.branch = "status"
    /\ lastPoll.status = "stop"
    /\ lastPoll.played
    /\ lastPoll.prev = "playing"
    /\ lastPoll.elapsed >= 15
    /\ lastPoll.after = "idle"
    /\ suppressed

\* C4 (as stated): a poll tick in which the device answers getStatusEx and
\* getPlayerStatus yields no payload sets the state to IDLE, unless the record
\* is PLAYING and less than 15 s have passed since the last play_media, when
\* it stays PLAYING; the device stays available.
C4_NoStatusHonoursGrace ==
    (lastPoll.seen /\ lastPoll.branch = "nostatus")
        => /\ lastPoll.after = (IF lastPoll.prev = "playing" /\ lastPoll.elapsed < 15
                                THEN "playing" ELSE "idle")
           /\ lastPoll.available

\* C5 (as stated): no other writer writes the record between the first and
\* the last write of a poll tick.
C5_WritersNeverInterleave ==
    /\ foreign = "none"
    /\ lastPoll.seen => lastPoll.foreign = "none"

\* C6: within a scan, the probes started and not yet resolved are never more
\* than 50.
C6_AtMost50InFlight == Cardinality(inflight) <= 50

\* Fifty probes are in flight while a second subnet of the scan is scanned.
C6_Witness ==
    /\ Cardinality(inflight) = 50
    /\ Len(candAll) > Len(ips_to_scan)

\* C7: probes start only when no probe is in flight (a batch starts after the
\* batch before it has resolved); the probes started are, in order and without
\* repetition, the candidate addresses, all of them once the scan has returned.
C7_BatchesSequential ==
    /\ [](/\ Len(probeLog) <= Len(candAll)
          /\ probeLog = SubSeq(candAll, 1, Len(probeLog))
          /\ Cardinality(Range(probeLog)) = Len(probeLog)
          /\ (discPc = "reconcile" => probeLog = candAll /\ inflight = {}))
    /\ [][probeLog' # probeLog => inflight = {}]_vars

\* A scan of several batches has returned.
C7_Witness ==
    /\ discPc = "reconcile"
    /\ Len(probeLog) > 2 * batch_size
    /\ probeLog = candAll

\* C8: for a valid subnet, _generate_ip_range returns at most 1024 addresses;
\* as many as the subnet has hosts, without warning, when the subnet has at
\* most 1024 addresses; and the first 1024 hosts in order, with the truncation
\* warning, when it has more.
C8_CandidateListCapped ==
    (rangeOut # None /\ rangeIn.kind = "cidr") =>
        LET prefix == rangeIn.prefix
            n == 2 ^ (32 - prefix)
            hostCount == IF prefix = 32 THEN 1 ELSE IF prefix = 31 THEN 2 ELSE n - 2
            firstHost == rangeIn.ip - (rangeIn.ip % n) + (IF prefix >= 31 THEN 0 ELSE 1)
        IN  /\ Len(rangeOut.ips) <= 1024
            /\ n <= 1024 => Len(rangeOut.ips) = hostCount /\ ~rangeOut.warned
            /\ n > 1024 => /\ Len(rangeOut.ips) = 1024
                           /\ rangeOut.warned
                           /\ \A i \in 1..1024 : rangeOut.ips[i] = firstHost + i - 1

\* The list of a /16 was cut to 1024 addresses, with the warning.
C8_Witness ==
    /\ rangeOut # None
    /\ rangeIn.prefix = 16
    /\ rangeOut.warned
    /\ Len(rangeOut.ips) = 1024

\* C9: a probe that meets a timeout, a connection error, a status other than
\* 200, or a 200 whose body is no status object, returns None and does not raise.
C9_FailedProbeReturnsAbsent ==
    (lastProbe.seen /\ lastProbe.resp \in FailureResponses)
        => (lastProbe.outcome.kind = "return" /\ lastProbe.outcome.val = None)

\* A probe got a 200 whose body is not JSON, and returned.
C9_Witness ==
    /\ lastProbe.seen
    /\ lastProbe.resp = Ok200NotJson
    /\ lastProbe.outcome.kind = "return"

\* C10: when the scan has returned, every candidate was probed, and the result
\* holds exactly the addresses whose probe returned an identity, each once,
\* with that identity.
C10_ScanResultIsTheIdentified ==
    discPc = "reconcile" =>
        /\ probeLog = candAll
        /\ { discovered[k].ip : k \in 1..Len(discovered) } = identified
        /\ Cardinality(identified) = Len(discovered)
        /\ \A k \in 1..Len(discovered) : discovered[k].info.kind = "info"

\* A scan of several batches has returned in which the probe of one device
\* failed in the first batch and the probe of another, in a later batch,
\* returned its identity.
C10_Witness ==
    /\ discPc = "reconcile"
    /\ Len(probeLog) > batch_size
    /\ \E k \in 1..batch_size : probeLog[k] = devAddr["d1"] /\ probeLog[k] \notin identified
    /\ \E k \in (batch_size + 1)..Len(probeLog) : probeLog[k] = devAddr["d2"] /\ probeLog[k] \in identified

\* C11: when the first discover_players over the subnet has returned, on a
\* registry that was empty, every device that answered has exactly one
\* record, keyed by the uuid of the device, at an address at which the device
\* answered, and what did not answer has no record.
C11_FirstDiscoverRegistersTheAnswering ==
    (cycles = 1 /\ discPc = "idle") =>
        /\ \A d \in Devices :
             IF answeredAt[d] # {}
             THEN /\ Cardinality(RecordsOf(d)) = 1
                  /\ \A player_id \in RecordsOf(d) :
                       /\ player_id.src = "uuid"
                       /\ player_id.v = uuidOf[d]
                       /\ players[player_id].ip_address \in answeredAt[d]
             ELSE RecordsOf(d) = {}
        /\ \A player_id \in DOMAIN players : recDev[player_id] \in Devices

\* C12: when unload returns, mass.players.unregister has been called exactly
\* once, with permanent=False, for every player that was in _players when
\* unload started (whatever is_removed, and whichever of the calls failed),
\* for no other player, and _players is empty.
C12_UnloadUnregistersAll ==
    [][(unloadPc # "done" /\ unloadPc' = "done") =>
          /\ \A player_id \in unloadSeen :
               Cardinality({ k \in 1..Len(unregCalls') :
                               unregCalls'[k].player_id = player_id }) = 1
          /\ \A k \in 1..Len(unregCalls') :
               /\ unregCalls'[k].player_id \in unloadSeen
               /\ unregCalls'[k].permanent = FALSE
          /\ DOMAIN players' = {}]_vars

\* C13: once unload has returned, no discover_players starts, no player is
\* added to _players and register_or_update is not called.
C13_NothingAfterUnload ==
    [][unloadPc = "done" =>
          /\ DOMAIN players' \subseteq DOMAIN players
          /\ registerCalls' = registerCalls
          /\ \A t \in Tasks : disc[t].pc = "off" => disc'[t].pc = "off"]_vars

C15_OneCycleAtATime ==
    /\ Cardinality({ t \in Tasks : disc[t].pc # "off" }) <= 1
    /\ perPc # "none" => (loadPc > Len(LoadedInMass) /\ disc["load"].pc = "off")

\* The second cycle of the periodic task is in progress, after its first.
C15_Witness ==
    /\ Len(iterLog) >= 1
    /\ disc["periodic"].pc = "register"
    /\ disc["load"].pc = "off"

\* C16: a poll tick whose getStatusEx gets no response (timeout, connection
\* error, a status other than 200) marks the player unavailable, sends no
\* getPlayerStatus, leaves every other field of the record as it was and
\* calls update_state once.
C16_UnreachableOnlyMarksUnavailable ==
    [][(lastPoll'.seen /\ ~lastPoll.seen /\ lastPoll'.ex \in {"timeout", "connerr", "non200"}) =>
          /\ lastPoll'.branch = "unreachable"
          /\ ~players'[Pid].available
          /\ players'[Pid] = [players[Pid] EXCEPT !.available = FALSE]
          /\ lastPoll'.sent = 1
          /\ pollPc' = "idle"
          /\ lastPoll'.published = 1]_vars

\* A tick found a playing device unreachable, and left it playing.
C16_Witness ==
    /\ lastPoll.seen
    /\ lastPoll.branch = "unreachable"
    /\ lastPoll.ex = "timeout"
    /\ lastPoll.prev = "playing"
    /\ players[Pid].playback_state = "playing"
    /\ ~players[Pid].available

C18_PublishesOnceNeverRaises ==
    lastPoll.seen =>
        /\ lastPoll.published = 1
        /\ ~lastPoll.raised
        /\ lastPoll.branch \in {"error", "status_error"} => ~lastPoll.available

\* A tick ended in the exception handler (int() of the "mute" member raised).
C18_Witness ==
    /\ lastPoll.seen
    /\ lastPoll.branch = "status_error"
    /\ lastPoll.published = 1
    /\ pollPc = "idle"

\* C19: _send_command that gets a 200 whose body is not valid JSON returns the
\* object with the one member "response", holding the text of the body,
\* raises nothing and does not return None; one that gets a 200 with a JSON
\* body returns the parsed value.
C19_NonJsonBodyIsWrapped ==
    sendOut # NoOutcome =>
        /\ (sendIn.kind = "ok200" /\ sendIn.body # "json") =>
              /\ sendOut.kind = "return"
              /\ sendOut.val # None
              /\ sendOut.val.kind = "json" /\ sendOut.val.t = "dict" /\ ~sendOut.val.empty
              /\ sendOut.val.response = sendIn.text
              /\ sendOut.val.status = "missing"
              /\ sendOut.val.vol = Missing /\ sendOut.val.mute = Missing
        /\ sendIn.body = "json" => sendOut = Returned(sendIn.json)

\* What holds of it: a body that response.text() can decode is wrapped or
\* parsed; only the body it cannot decode raises.
C19_DecodedBodyIsWrapped ==
    sendOut # NoOutcome =>
        /\ sendIn.body = "text" =>
              /\ sendOut.kind = "return"
              /\ sendOut.val.kind = "json" /\ sendOut.val.t = "dict" /\ ~sendOut.val.empty
              /\ sendOut.val.response = sendIn.text
              /\ sendOut.val.status = "missing"
              /\ sendOut.val.vol = Missing /\ sendOut.val.mute = Missing
        /\ sendIn.body = "json" => sendOut = Returned(sendIn.json)
        /\ sendOut.kind = "raise" => sendIn = HttpUndecodable

\* The body "OK" came back as {"response": "OK"}.
C19_Witness ==
    /\ sendIn = HttpText("OK")
    /\ sendOut.kind = "return"
    /\ sendOut.val.response = "OK"

\* C20: _send_command that meets a timeout or a client error returns None,
\* raises nothing and leaves the availability of the player as it was.
C20_NetworkFailureReturnsNone ==
    [][(sendOut = NoOutcome /\ sendOut' # NoOutcome /\ sendIn.kind \in {"timeout", "connerr"}) =>
          /\ sendOut' = Returned(None)
          /\ players'[Pid].available = players[Pid].available
          /\ players' = players]_vars

\* A command met a timeout on an available player and returned None.
C20_Witness ==
    /\ sendIn = HttpTimeout
    /\ sendOut = Returned(None)
    /\ players[Pid].available

\* C21: a call of _send_command issues exactly one HTTP request, that of its
\* command, whatever the request comes to: nothing is sent a second time.
C21_OneRequestPerCall ==
    /\ sendOut = NoOutcome => sendLog = << >>
    /\ sendOut # NoOutcome => sendLog = << sendCmd >>

\* A call whose request timed out has returned, one request sent.
C21_Witness ==
    /\ sendIn = HttpTimeout
    /\ sendOut = Returned(None)
    /\ sendCmd = "getStatusEx"
    /\ Len(sendLog) = 1

\* C22: with a configured subnet string that is no subnet, the candidate list
\* is empty, no probe is sent, nothing is discovered or reconciled, and no
\* step of discover_players changes the registry or calls register_or_update;
\* the discovery goes through to its return.
C22_InvalidSubnetScansNothing ==
    /\ [](cfgSubnet = InvalidSubnet =>
            /\ candAll = << >> /\ ips_to_scan = << >>
            /\ probeLog = << >> /\ inflight = {}
            /\ discovered = << >> /\ todo = << >>
            /\ discPc \in {"idle", "next_subnet", "next_batch", "reconcile"})
    /\ [][cfgSubnet = InvalidSubnet =>
            /\ players' = players
            /\ registerCalls' = registerCalls]_vars

\* A discovery has returned under an invalid subnet, with a player in the registry.
C22_Witness ==
    /\ cfgSubnet = InvalidSubnet
    /\ cycles = 1
    /\ discPc = "idle"
    /\ players = RegisteredPlayer

\* The calls of register_or_update made for the records of device d
RegisterCallsFor(d) ==
    LET keys == { player_id \in DOMAIN registerCalls : recDev[player_id] = d }
        RECURSIVE Sum(_)
        Sum(K) == IF K = {} THEN 0
                  ELSE LET k == CHOOSE x \in K : TRUE
                       IN  registerCalls[k] + Sum(K \ {k})
    IN  Sum(keys)

\* C23: a discovered device that is in the registry under the address found
\* leaves the registry and the calls of register_or_update as they were; and
\* register_or_update is called once for each device, in the cycle that
\* first finds it (never for a device not found, never a second time).
C23_KnownDeviceUntouched ==
    /\ [][(discPc = "reconcile" /\ todo # << >>
            /\ Head(todo).info.uuid \in DOMAIN players
            /\ players[Head(todo).info.uuid].ip_address = Head(todo).ip) =>
               /\ players' = players
               /\ registerCalls' = registerCalls]_vars
    /\ [](\A d \in Devices :
            /\ RegisterCallsFor(d) <= 1
            /\ discPc = "idle" => RegisterCallsFor(d) = IF answeredAt[d] = {} THEN 0 ELSE 1)

\* What holds of it: a device found again where its record says is left
\* untouched, and no key is handed to register_or_update twice.
C23_KnownKeyUntouched ==
    /\ [][(discPc = "reconcile" /\ todo # << >>
            /\ Head(todo).info.uuid \in DOMAIN players
            /\ players[Head(todo).info.uuid].ip_address = Head(todo).ip) =>
               /\ players' = players
               /\ registerCalls' = registerCalls]_vars
    /\ [](\A player_id \in DOMAIN registerCalls : registerCalls[player_id] = 1)
    /\ [](DOMAIN registerCalls = DOMAIN players)

\* C24: no step of discover_players takes a key out of the registry, and a
\* record changes only by having its address set to the address its device
\* was just found at: a device that answers no more keeps its record and its
\* last address, cycle after cycle.
C24_DiscoverNeverRemoves ==
    [][/\ DOMAIN players \subseteq DOMAIN players'
       /\ \A player_id \in DOMAIN players :
            players'[player_id] # players[player_id] =>
                /\ discPc = "reconcile" /\ todo # << >>
                /\ Head(todo).info.uuid = player_id
                /\ players'[player_id] =
                      [players[player_id] EXCEPT !.ip_address = Head(todo).ip]]_vars

\* A device registered in the first cycle was off the network during the
\* second, which found nothing, and is in the registry after it.
C24_Witness ==
    /\ cycles = 2
    /\ discPc = "idle"
    /\ identified = {}
    /\ \E player_id \in DOMAIN players :
         /\ devAddr[recDev[player_id]] = Offline
         /\ players[player_id].ip_address \in answeredAt[recDev[player_id]]

\* C25: after a play command (play_media, play, power on) has set the state
\* to PLAYING, a poll tick less than 15 s later (here: at the same reading of
\* the clock) that reports a status other than "play" and "pause" leaves the
\* state PLAYING.
C25_EveryPlayCommandStartsGrace ==
    (/\ lastPoll.seen
     /\ lastPoll.branch = "status"
     /\ lastPoll.status \in {"stop", "missing"}
     /\ playIssued
     /\ lastPoll.prev = "playing")
        => lastPoll.after = "playing"

\* C26: the volume of the record is an integer of 0..100 whatever "vol" the
\* polls read and whatever volume_set is called with (a level of 0..100).
C26_VolumeInRange ==
    \A player_id \in DOMAIN players :
        players[player_id].volume_level \in 0..100

\* What holds of it: a "vol" that is a string int() does not read, or of
\* another type than int and str, leaves the volume as it was.
C26_NonNumericKeepsVolume ==
    [][(/\ pollPc = "await_status" /\ pollPc' = "idle"
        /\ lastPoll'.branch = "status"
        /\ players'[Pid].last_status.vol.k \in {"str", "other"}) =>
            players'[Pid].volume_level = players[Pid].volume_level]_vars

\* C27: play_media sends stop, sleeps, sends switchmode:wifi, sleeps and sends
\* play:<uri>, one after the return of the other, <uri> being the media URI
\* with "?linkplay=1" appended iff it holds no "?"; the record is written
\* (play-start time, PLAYING, current media) when the play command has
\* returned, and at no step of play_media before it.
C27_PlayMediaSequence ==
    /\ [](cmd.op = "play_media" =>
            LET sent == [c |-> "setPlayerCmd:play:",
                         uri |-> [uri |-> cmd.arg,
                                  suffix |-> IF cmd.arg = "http://mass/flow/1.flac?sid=7"
                                             THEN "" ELSE "?linkplay=1"],
                         level |-> 0]
                steps == << WireCommand("setPlayerCmd:stop"), WireCommand("sleep"),
                            WireCommand("setPlayerCmd:switchmode:wifi"), WireCommand("sleep"),
                            sent >>
            IN  /\ cmd.step \in 1..5
                /\ wire = SubSeq(steps, 1, cmd.step))
    /\ [][(cmd.op = "play_media" /\ cmd' # cmd) =>
            IF cmd' = NoCmd
            THEN /\ cmd.step = 5
                 /\ players'[Pid].play_start_time = now
                 /\ players'[Pid].playback_state = "playing"
                 /\ players'[Pid].current_media = cmd.arg
            ELSE /\ cmd'.step = cmd.step + 1
                 /\ players' = players]_vars
    /\ [][players'[Pid].play_start_time # players[Pid].play_start_time =>
            cmd.op = "play_media" /\ cmd.step = 5 /\ cmd' = NoCmd]_vars

\* A play_media of a URI with a "?" has sent its play command, the fifth step
\* of its sequence, with nothing appended to the URI.
C27_Witness ==
    /\ cmd.op = "play_media"
    /\ cmd.arg = "http://mass/flow/1.flac?sid=7"
    /\ cmd.step = 5
    /\ Len(wire) = 5
    /\ wire[5].uri = [uri |-> "http://mass/flow/1.flac?sid=7", suffix |-> ""]

MinutesOf(s) ==
    ((s[1] - 48) * 10 + (s[2] - 48)) * 60 + (s[4] - 48) * 10 + (s[5] - 48)

\* The day is one of the schedule's days and the time of day is in
\* [start, end), the window running past midnight when start is after end
InWindow(schedule, at) ==
    LET start == MinutesOf(schedule.start_time)
        end == MinutesOf(schedule.end_time)
        t == 60 * at.t.h + at.t.m
    IN  /\ at.d \in schedule.days_of_week
        /\ IF start > end THEN t >= start \/ t < end
           ELSE start <= t /\ t < end

\* The schedule has a player and a media item
Startable(schedule) == schedule.players # << >> /\ schedule.media_items # << >>

\* C29: _should_be_active(schedule, t, d) is true iff d is one of the
\* schedule's days and t is in [start, end) as times of day, the window
\* running past midnight when start is after end; it is false whenever start
\* and end are the same time; and past midnight an overnight schedule is
\* active only on a day that is one of its days.
C29_ActiveIffInWindow ==
    activeOut.done =>
        LET schedule == activeIn.schedule
            start == MinutesOf(schedule.start_time)
            end == MinutesOf(schedule.end_time)
            t == 60 * activeIn.t.h + activeIn.t.m
        IN  /\ activeOut.result <=> InWindow(schedule, [d |-> activeIn.d, t |-> activeIn.t])
            /\ start = end => ~activeOut.result
            /\ (start > end /\ t < end /\ activeOut.result) =>
                   activeIn.d \in schedule.days_of_week

\* An overnight schedule of Sunday and Monday was found active at 05:59 on
\* Monday.
C29_Witness ==
    /\ activeOut.done
    /\ activeIn.schedule.start_time = Hhmm(Time(22, 0))
    /\ activeIn.schedule.end_time = Hhmm(Time(6, 0))
    /\ activeIn.schedule.days_of_week = {0, 6}
    /\ activeIn.t = Time(5, 59) /\ activeIn.d = 0
    /\ activeOut.result

\* C30: a pass of the scheduler's loop starts the schedule it visits when the
\* schedule is enabled, its window holds the day and time the tick read, and
\* it is not active (it is active afterwards iff it has a player and a media
\* item and the start did not fail); it stops the schedule when it is enabled,
\* active and outside its window; it changes the active set in no other way.
\* When the tick has returned and no API command has run since it began,
\* every enabled schedule with a player and a media item whose start did not
\* fail is active iff its window holds the day and time the tick read.
C30_TickSetsActiveToWindow ==
    /\ []((tick.pc = "idle" /\ tick.done /\ tick.quiet) =>
            \A schedule_id \in DOMAIN schedules :
                (/\ schedules[schedule_id].enabled
                 /\ Startable(schedules[schedule_id])
                 /\ schedule_id \notin tick.failed) =>
                    (schedule_id \in active_schedules
                        <=> InWindow(schedules[schedule_id], tick.now)))
    /\ [][(tick.pc = "running" /\ tick'.pc = "running" /\ tick'.todo # tick.todo) =>
            active_schedules' =
                IF /\ schedules[Head(tick.todo)].enabled
                   /\ InWindow(schedules[Head(tick.todo)], tick.now)
                   /\ Head(tick.todo) \notin active_schedules
                THEN IF /\ Startable(schedules[Head(tick.todo)])
                        /\ Head(tick.todo) \notin tick'.failed
                     THEN active_schedules \cup {Head(tick.todo)}
                     ELSE active_schedules
                ELSE IF /\ schedules[Head(tick.todo)].enabled
                        /\ ~InWindow(schedules[Head(tick.todo)], tick.now)
                        /\ Head(tick.todo) \in active_schedules
                     THEN active_schedules \ {Head(tick.todo)}
                     ELSE active_schedules]_vars

\* A tick has returned, undisturbed, after it stopped the first schedule, which
\* had been triggered outside its window, and started the second.
C30_Witness ==
    /\ tick.pc = "idle" /\ tick.done /\ tick.quiet
    /\ tick.failed = {}
    /\ tick.now = [d |-> 1, t |-> Time(23, 0)]
    /\ schedules[1].enabled /\ schedules[2].enabled
    /\ schedules[1].start_time = Hhmm(Time(9, 0))
    /\ schedules[1].players = << "p1" >> /\ schedules[1].media_items = << "m1" >>
    /\ active_schedules = {2}

\* C32: when register_or_update raises for a new device, discover_players
\* goes on with the devices that remain, the record stays in _players, and
\* register_or_update is called for that device in no later cycle.
C32_FailedRegistrationNeverRetried ==
    /\ [][registerRaised' # registerRaised =>
            /\ discPc' = "reconcile"
            /\ todo' = todo
            /\ players' = players]_vars
    /\ [](registerRaised \subseteq DOMAIN players)
    /\ [](\A player_id \in registerRaised : RegisterCallsFor(recDev[player_id]) = 1)

\* What holds of it: the loop goes on, the record stays, and
\* register_or_update is called for that player id in no later cycle.
C32_FailedKeyNeverRetried ==
    /\ [][registerRaised' # registerRaised =>
            /\ discPc' = "reconcile"
            /\ todo' = todo
            /\ players' = players]_vars
    /\ [](registerRaised \subseteq DOMAIN players)
    /\ [](\A player_id \in registerRaised : registerCalls[player_id] = 1)

\* C33: a command whose (last) _send_command returned None makes its writes
\* all the same: play_media the play-start time, PLAYING and the media, play
\* PLAYING, pause PAUSED, stop IDLE and no media, volume_set the level,
\* volume_mute the flag. After such a play_media a poll inside the grace
\* period that reads the status "stop" leaves the record at PLAYING.
C33_UnansweredCommandStillWrites ==
    /\ [][(cmd # NoCmd /\ cmd' = NoCmd /\ lastReply' = "None") =>
            CASE cmd.op = "play_media" ->
                    /\ players'[Pid].play_start_time = now
                    /\ players'[Pid].playback_state = "playing"
                    /\ players'[Pid].current_media = cmd.arg
              [] cmd.op = "play" -> players'[Pid].playback_state = "playing"
              [] cmd.op = "pause" -> players'[Pid].playback_state = "paused"
              [] cmd.op = "stop" ->
                    /\ players'[Pid].playback_state = "idle"
                    /\ players'[Pid].current_media = "none"
              [] cmd.op = "volume_set" -> players'[Pid].volume_level = cmd.level
              [] cmd.op = "volume_mute" -> players'[Pid].volume_muted
              [] OTHER -> TRUE]_vars
    /\ []((/\ cmd = NoCmd /\ lastReply = "None" /\ Len(wire) = 5
           /\ lastPoll.seen /\ lastPoll.branch = "status" /\ lastPoll.status = "stop"
           /\ lastPoll.prev = "playing") =>
              /\ lastPoll.after = "playing"
              /\ players[Pid].playback_state = "playing")

\* A play_media whose play command got no answer has ended, and a poll after
\* it that read "stop" has left the record at PLAYING.
C33_Witness ==
    /\ cmd = NoCmd /\ lastReply = "None" /\ Len(wire) = 5
    /\ lastPoll.seen /\ lastPoll.branch = "status" /\ lastPoll.status = "stop"
    /\ lastPoll.prev = "playing"
    /\ players[Pid].playback_state = "playing"
    /\ players[Pid].current_media = "http://mass/flow/1.flac"

\* C36: when a tick has returned, and no API command has run since it began,
\* no schedule is both disabled and active.
C36_NoDisabledActiveAfterTick ==
    (tick.pc = "idle" /\ tick.done /\ tick.quiet) =>
        \A schedule_id \in DOMAIN schedules :
            ~(~schedules[schedule_id].enabled /\ schedule_id \in active_schedules)

\* What holds of it: a tick starts no disabled schedule (and stops none).
C36_DisabledIsSkipped ==
    [][(tick.pc = "running" /\ tick'.pc = "running" /\ tick'.todo # tick.todo
            /\ ~schedules[Head(tick.todo)].enabled) =>
                /\ active_schedules' = active_schedules
                /\ Head(tick.todo) \notin tick'.tried]_vars

\* C37: a pass of the tick puts a schedule into the active set only when its
\* start had players, media items and a play_media that returned (with the
\* first player known, for a group); a start that fails leaves the schedule
\* out of the active set with the state IDLE; and every tick that visits an
\* enabled schedule that is inside its window and not active calls
\* _start_schedule for it, whatever became of the starts before.
C37_FailedStartIsRetried ==
    /\ [][(tick.pc = "running" /\ tick'.pc = "running" /\ tick'.todo # tick.todo) =>
            /\ (Head(tick.todo) \in active_schedules' \ active_schedules) =>
                    /\ Head(tick.todo) \in tick'.tried
                    /\ Head(tick.todo) \notin tick'.failed
                    /\ Startable(schedules[Head(tick.todo)])
            /\ (/\ Head(tick.todo) \in tick'.tried
                /\ \/ Head(tick.todo) \in tick'.failed
                   \/ ~Startable(schedules[Head(tick.todo)])) =>
                    /\ Head(tick.todo) \notin active_schedules'
                    /\ schedules'[Head(tick.todo)].state = "idle"
            /\ (/\ schedules[Head(tick.todo)].enabled
                /\ InWindow(schedules[Head(tick.todo)], tick.now)
                /\ Head(tick.todo) \notin active_schedules) =>
                    Head(tick.todo) \in tick'.tried]_vars
    /\ [](\A schedule_id \in DOMAIN schedules :
            schedule_id \notin active_schedules => schedules[schedule_id].state = "idle")

\* A tick has called _start_schedule for a schedule whose start had failed in
\* the tick before, and the start has failed again: the schedule is not active
\* and its state is IDLE.
C37_Witness ==
    /\ tick.pc = "idle" /\ tick.done
    /\ 1 \in tick.before
    /\ 1 \in tick.tried
    /\ 1 \in tick.failed
    /\ 1 \notin active_schedules
    /\ schedules[1].state = "idle"

C35_ActiveAreExisting ==
    /\ active_schedules \subseteq DOMAIN schedules
    /\ \A c \in calls : c.op = "deleted" => c.id \notin active_schedules

\* C39: when a tick is over, every enabled schedule that was in the dict from
\* the beginning of the tick to its end has been evaluated by it.
C39_TickEvaluatesAll ==
    (tick.pc = "idle" /\ tick.done) =>
        \A schedule_id \in tick.present :
            schedules[schedule_id].enabled => schedule_id \in tick.evaluated

\* C38: after an update whose save has failed, the schedule in memory has the
\* field values it had before the call and is equal to its database row; a
\* call of update, delete, trigger or stop with an unknown id raises and
\* changes neither the schedules, nor the active set, nor the database.
C38_UpdateAllOrNothing ==
    /\ \A c \in calls :
          c.op = "update_failed" =>
              /\ schedules[c.id] = c.obj
              /\ Row(schedules[c.id]) = database[c.id]
    /\ \A c \in calls :
          c.op = "raised" => c.id \notin DOMAIN schedules

\* C38, the part that holds: a call with an unknown id raises and changes
\* neither the schedules, nor the active set, nor the database.
C38_UnknownIdChangesNothing ==
    [][(\E c \in calls' \ calls : c.op = "raised") =>
          UNCHANGED << schedules, active_schedules, database >>]_vars

\* The minute of the day of a play
MinuteOfPlay(p) == (p.at \div 60) % 1440

PlaysOf(announcement_id) ==
    { k \in 1..Len(playLog) : playLog[k].announcement_id = announcement_id }

\* The minutes of the day, from the first of the run on, that have gone by
\* with a tick in them
TickedMinutes ==
    { m \in tick.ticked : m < 60 * wall.t.h + wall.t.m }

\* C31: while the schedule is active and ticked every minute, an announcement
\* with a repeat interval of N minutes has been played in the minute of its
\* time and in every N-th minute after it; an announcement without a repeat
\* interval has been played at most once, in the minute of its time; and no
\* announcement has been played twice in one minute.
C31_AnnouncementsPlayOnTime ==
    \A k \in 1..Len(schedules[1].announcements) :
        LET a == schedules[1].announcements[k]
            time == MinutesOf(a.time)
        IN  /\ a.repeat_interval # None =>
                  \A m \in TickedMinutes :
                      (/\ m >= time
                       /\ (m - time) % a.repeat_interval.val = 0
                       /\ \A n \in time..m : n \in TickedMinutes) =>
                          \E p \in PlaysOf(a.announcement_id) : MinuteOfPlay(playLog[p]) = m
            /\ a.repeat_interval = None =>
                  /\ Cardinality(PlaysOf(a.announcement_id)) <= 1
                  /\ \A p \in PlaysOf(a.announcement_id) : MinuteOfPlay(playLog[p]) = time
                  /\ time \in TickedMinutes => PlaysOf(a.announcement_id) # {}
            /\ \A p, q \in PlaysOf(a.announcement_id) :
                  MinuteOfPlay(playLog[p]) = MinuteOfPlay(playLog[q]) => p = q

\* C31, the part that holds: every announcement, repeating or not, is played
\* once in the minute of its time when a tick falls into it, and at no other
\* time.
C31_PlayedOnceAtItsTime ==
    \A k \in 1..Len(schedules[1].announcements) :
        LET a == schedules[1].announcements[k]
            time == MinutesOf(a.time)
        IN  /\ Cardinality(PlaysOf(a.announcement_id)) <= 1
            /\ \A p \in PlaysOf(a.announcement_id) : MinuteOfPlay(playLog[p]) = time
            /\ time \in TickedMinutes => PlaysOf(a.announcement_id) # {}
====
